---- MODULE Spec2Model ----
(***************************************************************************)
(* A model of the ever-abi codec: the type-driven serializer and           *)
(* deserializer over the cell tree (src/token), the function call builder  *)
(* (src/function.rs) and the contract registry (src/contract.rs).          *)
(*                                                                         *)
(* The cell machine (cell, builder, slice, dictionary) is an external      *)
(* collaborator.  Cell data is kept bit-exact, in run-length form: a bit   *)
(* string is a sequence of runs <<bit, count>> with no empty run and no    *)
(* two adjacent runs of the same bit, so equal bit strings are equal       *)
(* values.                                                                 *)
(***************************************************************************)
EXTENDS Integers, Sequences, FiniteSets, TLC

\* ------------------------------------------------------------------------
\* Bit strings (run-length form)
\* ------------------------------------------------------------------------

Run(b, n) == IF n = 0 THEN <<>> ELSE << <<b, n>> >>

BCat(a, b) ==
    IF a = <<>> THEN b
    ELSE IF b = <<>> THEN a
    ELSE IF a[Len(a)][1] = b[1][1]
         THEN SubSeq(a, 1, Len(a) - 1)
                \o << <<b[1][1], a[Len(a)][2] + b[1][2]>> >>
                \o Tail(b)
         ELSE a \o b

RECURSIVE BLen(_)
BLen(d) == IF d = <<>> THEN 0 ELSE d[1][2] + BLen(Tail(d))

RECURSIVE BTake(_, _)
BTake(d, n) ==
    IF n = 0 \/ d = <<>> THEN <<>>
    ELSE IF d[1][2] >= n THEN << <<d[1][1], n>> >>
    ELSE <<d[1]>> \o BTake(Tail(d), n - d[1][2])

RECURSIVE BDrop(_, _)
BDrop(d, n) ==
    IF n = 0 \/ d = <<>> THEN d
    ELSE IF d[1][2] > n THEN << <<d[1][1], d[1][2] - n>> >> \o Tail(d)
    ELSE BDrop(Tail(d), n - d[1][2])

BSub(d, from, n) == BTake(BDrop(d, from), n)

BFlip(d) == [i \in 1..Len(d) |-> <<1 - d[i][1], d[i][2]>>]

\* the minimal binary writing of a natural number, most significant bit first
RECURSIVE NatBits(_)
NatBits(v) == IF v = 0 THEN <<>> ELSE BCat(NatBits(v \div 2), Run(v % 2, 1))

\* the low n bits of a natural number, big-endian, left-padded with zeros
BOfNat(v, n) ==
    LET m == NatBits(v)
        l == BLen(m)
    IN IF l <= n THEN BCat(Run(0, n - l), m) ELSE BDrop(m, l - n)

\* the low n bits of the two's complement writing of an integer
BOfInt(v, n) == IF v >= 0 THEN BOfNat(v, n) ELSE BFlip(BOfNat(-v - 1, n))

RECURSIVE BFold(_, _)
BFold(d, acc) ==
    IF d = <<>> THEN acc
    ELSE BFold(Tail(d),
               IF d[1][1] = 0
               THEN (IF acc = 0 THEN 0 ELSE acc * 2^(d[1][2]))
               ELSE (acc + 1) * 2^(d[1][2]) - 1)

\* the greatest magnitude the model's integers keep exact; every natural
\* number above it reads as Huge
Huge == 1073741824

BStrip(d) == IF d # <<>> /\ d[1][1] = 0 THEN Tail(d) ELSE d

\* the natural number a bit string writes, big-endian
BToNat(d) == IF BLen(BStrip(d)) > 30 THEN Huge ELSE BFold(d, 0)

\* the integer a bit string writes in two's complement
BToInt(d) ==
    IF d # <<>> /\ d[1][1] = 1 THEN -(BToNat(BFlip(d)) + 1) ELSE BToNat(d)


\* ------------------------------------------------------------------------
\* ABI versions (src/contract.rs)
\* ------------------------------------------------------------------------

AbiVersion(major, minor) == [major |-> major, minor |-> minor]

ABI_VERSION_1_0 == AbiVersion(1, 0)
ABI_VERSION_2_0 == AbiVersion(2, 0)
ABI_VERSION_2_1 == AbiVersion(2, 1)
ABI_VERSION_2_2 == AbiVersion(2, 2)
ABI_VERSION_2_3 == AbiVersion(2, 3)
ABI_VERSION_2_4 == AbiVersion(2, 4)

MIN_SUPPORTED_VERSION == ABI_VERSION_1_0
MAX_SUPPORTED_VERSION == ABI_VERSION_2_4

\* #[derive(PartialOrd)] on a struct: lexicographic on (major, minor)
VerGE(a, b) == a.major > b.major \/ (a.major = b.major /\ a.minor >= b.minor)
VerLT(a, b) == ~VerGE(a, b)

version_is_supported(v) ==
    VerGE(v, MIN_SUPPORTED_VERSION) /\ VerGE(MAX_SUPPORTED_VERSION, v)

\* the six versions the specification lists
Versions ==
    {ABI_VERSION_1_0, ABI_VERSION_2_0, ABI_VERSION_2_1,
     ABI_VERSION_2_2, ABI_VERSION_2_3, ABI_VERSION_2_4}

\* the versions a schema is given here, and those of them load accepts
VersionCandidates ==
    Versions \cup {AbiVersion(0, 0), AbiVersion(1, 1), AbiVersion(2, 5),
                   AbiVersion(3, 0)}
SupportedVersions == {v \in VersionCandidates : version_is_supported(v)}

\* ------------------------------------------------------------------------
\* The cell machine: cells, builders, slices
\* ------------------------------------------------------------------------

bits_capacity == 1023
references_capacity == 4

\* A cell: its data bits and its references.  A dictionary root is kept
\* abstract: dict = <<key length, entries>>, entries a set of [key, leaf].
MkCell(bits, refs) == [bits |-> bits, refs |-> refs, dict |-> <<>>]
EmptyCell == MkCell(<<>>, <<>>)
DictCell(key_len, entries) ==
    [bits |-> <<>>, refs |-> <<>>, dict |-> <<key_len, entries>>]

\* A builder is a cell under construction
BuilderNew == EmptyCell
bits_used(b) == BLen(b.bits)
references_used(b) == Len(b.refs)
bits_free(b) == bits_capacity - bits_used(b)
references_free(b) == references_capacity - references_used(b)

can_append(b, v) ==
    /\ bits_used(b) + bits_used(v) <= bits_capacity
    /\ references_used(b) + references_used(v) <= references_capacity

append_builder(b, v) == MkCell(BCat(b.bits, v.bits), b.refs \o v.refs)
append_bits(b, d) == MkCell(BCat(b.bits, d), b.refs)
append_reference(b, c) == MkCell(b.bits, Append(b.refs, c))
prepend_bits(b, d) == MkCell(BCat(d, b.bits), b.refs)
prepend_reference(b, c) == MkCell(b.bits, <<c>> \o b.refs)

\* A slice: a read cursor over a cell, pos bits and rpos references consumed
SliceOf(c) == [cell |-> c, pos |-> 0, rpos |-> 0]
remaining_bits(s) == BLen(s.cell.bits) - s.pos
remaining_references(s) == Len(s.cell.refs) - s.rpos
slice_reference(s, i) == s.cell.refs[s.rpos + i + 1]
has_reference(s, i) == s.rpos + i + 1 <= Len(s.cell.refs)
peek_bits(s, n) == BSub(s.cell.bits, s.pos, n)
skip_bits(s, n) == [s EXCEPT !.pos = s.pos + n]
drain_reference(s) == [s EXCEPT !.rpos = s.rpos + 1]
\* BuilderData::from_slice: what is left to read, as a builder
from_slice(s) ==
    MkCell(BDrop(s.cell.bits, s.pos),
           SubSeq(s.cell.refs, s.rpos + 1, Len(s.cell.refs)))

\* ------------------------------------------------------------------------
\* ParamType (src/param_type/param_type.rs)
\* ------------------------------------------------------------------------

Param(name, kind) == [name |-> name, kind |-> kind]

Ty(tag, size, sub) == [tag |-> tag, size |-> size, sub |-> sub]
TUint(n) == Ty("uint", n, <<>>)
TInt(n) == Ty("int", n, <<>>)
TVarUint(n) == Ty("varuint", n, <<>>)
TVarInt(n) == Ty("varint", n, <<>>)
TBool == Ty("bool", 0, <<>>)
TTuple(params) == Ty("tuple", 0, params)
TArray(t) == Ty("array", 0, <<t>>)
TFixedArray(t, n) == Ty("fixedarray", n, <<t>>)
TCell == Ty("cell", 0, <<>>)
TMap(k, v) == Ty("map", 0, <<k, v>>)
TAddress == Ty("address", 0, <<>>)
TBytes == Ty("bytes", 0, <<>>)
TFixedBytes(n) == Ty("fixedbytes", n, <<>>)
TString == Ty("string", 0, <<>>)
TToken == Ty("gram", 0, <<>>)
TTime == Ty("time", 0, <<>>)
TExpire == Ty("expire", 0, <<>>)
TPublicKey == Ty("pubkey", 0, <<>>)
TOptional(t) == Ty("optional", 0, <<t>>)
TRef(t) == Ty("ref", 0, <<t>>)

\* 8 - ((size - 1) as u8).leading_zeros()
varint_size_len(size) == BLen(NatBits((size - 1) % 256))

RECURSIVE max_bit_size(_), max_refs_count(_), is_large_optional(_)
RECURSIVE SumBits(_), SumRefs(_)

SumBits(params) ==
    IF params = <<>> THEN 0
    ELSE max_bit_size(params[1].kind) + SumBits(Tail(params))

SumRefs(params) ==
    IF params = <<>> THEN 0
    ELSE max_refs_count(params[1].kind) + SumRefs(Tail(params))

is_large_optional(t) ==
    \/ max_bit_size(t) >= bits_capacity
    \/ max_refs_count(t) >= references_capacity

max_refs_count(t) ==
    CASE t.tag \in {"uint", "int", "varuint", "varint", "bool", "address",
                    "gram", "time", "expire", "pubkey"} -> 0
      [] t.tag \in {"array", "fixedarray", "cell", "string", "map", "bytes",
                    "fixedbytes", "ref"} -> 1
      [] t.tag = "tuple" -> SumRefs(t.sub)
      [] t.tag = "optional" ->
            IF is_large_optional(t.sub[1]) THEN 1
            ELSE max_refs_count(t.sub[1])

max_bit_size(t) ==
    CASE t.tag \in {"uint", "int"} -> t.size
      [] t.tag \in {"varuint", "varint"} ->
            varint_size_len(t.size) + (t.size - 1) * 8
      [] t.tag = "bool" -> 1
      [] t.tag = "array" -> 33
      [] t.tag = "fixedarray" -> 1
      [] t.tag = "cell" -> 0
      [] t.tag = "map" -> 1
      [] t.tag = "address" -> 591
      [] t.tag \in {"bytes", "fixedbytes", "string"} -> 0
      [] t.tag = "gram" -> 124
      [] t.tag = "time" -> 64
      [] t.tag = "expire" -> 32
      [] t.tag = "pubkey" -> 257
      [] t.tag = "ref" -> 0
      [] t.tag = "tuple" -> SumBits(t.sub)
      [] t.tag = "optional" ->
            IF is_large_optional(t.sub[1]) THEN 1
            ELSE 1 + max_bit_size(t.sub[1])

\* Check if parameter type is supported in particular ABI version
is_supported(t, abi_version) ==
    CASE t.tag \in {"time", "expire", "pubkey"} ->
            VerGE(abi_version, ABI_VERSION_2_0)
      [] t.tag \in {"string", "optional", "varint", "varuint"} ->
            VerGE(abi_version, ABI_VERSION_2_1)
      [] t.tag = "ref" -> FALSE
      [] OTHER -> VerGE(abi_version, ABI_VERSION_1_0)

get_map_key_size(t) ==
    CASE t.tag \in {"int", "uint"} -> t.size
      [] t.tag = "address" -> 267
      [] OTHER -> -1


\* ------------------------------------------------------------------------
\* TokenValue (src/token/mod.rs)
\* ------------------------------------------------------------------------

Token(name, value) == [name |-> name, value |-> value]

\* A value: its tag, its declared size, its payload v and the types it
\* carries.  Int/Uint/VarInt/VarUint/Token payloads are integers; Time,
\* Expire and public keys are machine words, kept as bit strings of their
\* width; a byte vector is the bit string of its bytes (8 bits each); a map
\* is a set of [key, val].
Val(tag, size, v, ty) == [v |-> v, tag |-> tag, size |-> size, ty |-> ty]
VUint(n, v) == Val("uint", n, v, <<>>)
VInt(n, v) == Val("int", n, v, <<>>)
VVarUint(n, v) == Val("varuint", n, v, <<>>)
VVarInt(n, v) == Val("varint", n, v, <<>>)
VBool(b) == Val("bool", 0, b, <<>>)
VTuple(tokens) == Val("tuple", 0, tokens, <<>>)
VArray(t, items) == Val("array", 0, items, <<t>>)
VFixedArray(t, items) == Val("fixedarray", 0, items, <<t>>)
VCell(c) == Val("cell", 0, c, <<>>)
VMap(kt, vt, m) == Val("map", 0, m, <<kt, vt>>)
VAddress(a) == Val("address", 0, a, <<>>)
VBytes(b) == Val("bytes", 0, b, <<>>)
VFixedBytes(b) == Val("fixedbytes", 0, b, <<>>)
VString(b) == Val("string", 0, b, <<>>)
VToken(g) == Val("gram", 0, g, <<>>)
VTime(w) == Val("time", 0, w, <<>>)
VExpire(w) == Val("expire", 0, w, <<>>)
VPublicKey(k) == Val("pubkey", 0, k, <<>>)
VOptional(t, o) == Val("optional", 0, o, <<t>>)
VRef(v) == Val("ref", 0, <<v>>, <<>>)

\* MsgAddress values: AddrNone, or a standard non-anycast address
AddrNone == [acc |-> <<>>, kind |-> "none", wc |-> 0]
AddrStd(wc, acc) == [acc |-> acc, kind |-> "std", wc |-> wc]

\* Vec<u8>::len() and &data[from..from + n]
BytesLen(data) == BLen(data) \div 8
BytesSub(data, from, n) == BSub(data, from * 8, n * 8)

RECURSIVE get_param_type(_), TokensParams(_)

\* Returns `Param` the token represents, for each token of a list
TokensParams(tokens) ==
    [i \in 1..Len(tokens) |->
        Param(tokens[i].name, get_param_type(tokens[i].value))]

\* Returns `ParamType` the token value represents
get_param_type(val) ==
    CASE val.tag \in {"uint", "int", "varuint", "varint"} ->
            Ty(val.tag, val.size, <<>>)
      [] val.tag = "tuple" -> TTuple(TokensParams(val.v))
      [] val.tag = "array" -> TArray(val.ty[1])
      [] val.tag = "fixedarray" -> TFixedArray(val.ty[1], Len(val.v))
      [] val.tag = "map" -> TMap(val.ty[1], val.ty[2])
      [] val.tag = "fixedbytes" -> TFixedBytes(BytesLen(val.v))
      [] val.tag = "optional" -> TOptional(val.ty[1])
      [] val.tag = "ref" -> TRef(get_param_type(val.v[1]))
      [] OTHER -> Ty(val.tag, 0, <<>>)

RECURSIVE type_check(_, _), types_check(_, _)

\* Check if all the types of the tokens match the given parameter types
types_check(tokens, params) ==
    /\ Len(params) = Len(tokens)
    /\ \A i \in 1..Len(params) :
          /\ type_check(tokens[i].value, params[i].kind)
          /\ tokens[i].name = params[i].name

type_check(val, t) ==
    CASE val.tag \in {"uint", "int", "varuint", "varint"} ->
            t = Ty(val.tag, val.size, <<>>)
      [] val.tag = "tuple" -> t.tag = "tuple" /\ types_check(val.v, t.sub)
      [] val.tag = "array" ->
            /\ t.tag = "array"
            /\ val.ty[1] = t.sub[1]
            /\ \A i \in 1..Len(val.v) : type_check(val.v[i], t.sub[1])
      [] val.tag = "fixedarray" ->
            /\ t.tag = "fixedarray"
            /\ t.size = Len(val.v)
            /\ val.ty[1] = t.sub[1]
            /\ \A i \in 1..Len(val.v) : type_check(val.v[i], t.sub[1])
      [] val.tag = "map" ->
            /\ t.tag = "map"
            /\ val.ty[1] = t.sub[1]
            /\ val.ty[2] = t.sub[2]
            /\ \A e \in val.v : type_check(e.val, t.sub[2])
      [] val.tag = "fixedbytes" -> t = TFixedBytes(BytesLen(val.v))
      [] val.tag = "optional" ->
            /\ t.tag = "optional"
            /\ t.sub[1] = val.ty[1]
            /\ (val.v # <<>> => type_check(val.v[1], t.sub[1]))
      [] val.tag = "ref" -> t.tag = "ref" /\ type_check(val.v[1], t.sub[1])
      [] OTHER -> t = Ty(val.tag, 0, <<>>)


\* ------------------------------------------------------------------------
\* Serializer (src/token/serialize.rs)
\* ------------------------------------------------------------------------

\* Result<T>: err = "" on success
Ok(x) == [val |-> x, err |-> ""]
Err(e) == [val |-> <<>>, err |-> e]

\* the ? operator: the error of r, or what follows from its success
AndThen(r, then(_)) == IF r.err # "" THEN r ELSE then(r)

\* the ? operator where the error changes its carrier
Try(r, fail(_), then(_)) == IF r.err # "" THEN fail(r.err) ELSE then(r)

\* let v = ...: a value computed once and named in what follows
With(v, body(_)) == body(v)

\* SerializedValue.  n is a ghost field: how many values the builder holds.
SerializedValue(data, max_bits, max_refs) ==
    [n |-> 1, data |-> data, max_bits |-> max_bits, max_refs |-> max_refs]

\* impl From<BuilderData> for SerializedValue
SerializedFrom(data) ==
    SerializedValue(data, bits_used(data), references_used(data))

RECURSIVE get_remaining(_, _)
\* (refs, bits) the values still to be packed need
get_remaining(values, abi_version) ==
    IF values = <<>> THEN [bits |-> 0, refs |-> 0]
    ELSE LET rest == get_remaining(Tail(values), abi_version)
             value == values[1]
         IN IF VerGE(abi_version, ABI_VERSION_2_2)
            THEN [bits |-> rest.bits + value.max_bits,
                  refs |-> rest.refs + value.max_refs]
            ELSE [bits |-> rest.bits + bits_used(value.data),
                  refs |-> rest.refs + references_used(value.data)]

\* the builder at the tail of the chain takes one more value
append_value(builder, value) ==
    [n |-> builder.n + 1,
     data |-> append_builder(builder.data, value.data),
     max_bits |-> builder.max_bits + value.max_bits,
     max_refs |-> builder.max_refs + value.max_refs]

\* the decision with the last reference slot free for values in ABI 1.0
\* as well
starts_new_cell_any_version(builder, value, values, abi_version) ==
    LET v22 == VerGE(abi_version, ABI_VERSION_2_2)
        remaining_bits_ == IF v22 THEN bits_capacity - builder.max_bits
                           ELSE bits_free(builder.data)
        remaining_refs_ == IF v22 THEN references_capacity - builder.max_refs
                           ELSE references_free(builder.data)
        value_bits == IF v22 THEN value.max_bits ELSE bits_used(value.data)
        value_refs == IF v22 THEN value.max_refs
                      ELSE references_used(value.data)
        rem == get_remaining(values, abi_version)
    IN IF remaining_bits_ < value_bits \/ remaining_refs_ < value_refs
       THEN TRUE
       ELSE IF value_refs > 0 /\ remaining_refs_ = value_refs
            THEN ~(rem.refs = 0 /\ rem.bits + value_bits <= remaining_bits_)
            ELSE FALSE

\* the decision taken on the sizes the values use, in every version
starts_new_cell_used_sizes(builder, value, values, abi_version) ==
    LET remaining_bits_ == bits_free(builder.data)
        remaining_refs_ == references_free(builder.data)
        value_bits == bits_used(value.data)
        value_refs == references_used(value.data)
        rem == get_remaining(values, ABI_VERSION_2_0)
    IN IF remaining_bits_ < value_bits \/ remaining_refs_ < value_refs
       THEN TRUE
       ELSE IF value_refs > 0 /\ remaining_refs_ = value_refs
            THEN ~(/\ abi_version # ABI_VERSION_1_0
                   /\ rem.refs = 0
                   /\ rem.bits + value_bits <= remaining_bits_)
            ELSE FALSE

\* the decision of one turn of the loop: TRUE when the value continues the
\* chain in a new cell, FALSE when it is appended to the current builder
starts_new_cell(builder, value, values, abi_version) ==
    LET v22 == VerGE(abi_version, ABI_VERSION_2_2)
        remaining_bits_ == IF v22 THEN bits_capacity - builder.max_bits
                           ELSE bits_free(builder.data)
        remaining_refs_ == IF v22 THEN references_capacity - builder.max_refs
                           ELSE references_free(builder.data)
        value_bits == IF v22 THEN value.max_bits ELSE bits_used(value.data)
        value_refs == IF v22 THEN value.max_refs
                      ELSE references_used(value.data)
        rem == get_remaining(values, abi_version)
    IN IF remaining_bits_ < value_bits \/ remaining_refs_ < value_refs
       THEN TRUE
       ELSE IF value_refs > 0 /\ remaining_refs_ = value_refs
            THEN ~(/\ abi_version # ABI_VERSION_1_0
                   /\ rem.refs = 0
                   /\ rem.bits + value_bits <= remaining_bits_)
            ELSE FALSE

RECURSIVE pack_loop(_, _, _)
\* while let Some(value) = values.pop()
pack_loop(packed_cells, values, abi_version) ==
    IF values = <<>> THEN Ok(packed_cells)
    ELSE LET k == Len(packed_cells)
             builder == packed_cells[k]
             value == values[1]
         IN IF starts_new_cell(builder, value, Tail(values), abi_version)
            THEN pack_loop(Append(packed_cells, value), Tail(values),
                           abi_version)
            ELSE IF ~can_append(builder.data, value.data)
                 THEN Err("CellOverflow")
                 ELSE pack_loop(
                        [packed_cells EXCEPT ![k] = append_value(builder, value)],
                        Tail(values), abi_version)

RECURSIVE link_chain_first(_)
\* the cells linked by the first reference of each cell instead
link_chain_first(packed_cells) ==
    IF Len(packed_cells) = 1 THEN packed_cells[1].data
    ELSE prepend_reference(packed_cells[1].data,
                           link_chain_first(Tail(packed_cells)))

RECURSIVE link_chain(_)
\* packed_cells.into_iter().rev().reduce(|acc, cur| cur.append_reference(acc))
link_chain(packed_cells) ==
    IF Len(packed_cells) = 1 THEN packed_cells[1].data
    ELSE append_reference(packed_cells[1].data,
                          link_chain(Tail(packed_cells)))

\* the packed cells before they are linked
pack_cells(values, abi_version) ==
    IF values = <<>> THEN Err("InvalidData")
    ELSE pack_loop(<<values[1]>>, Tail(values), abi_version)

\* first cell is resulting builder; every next cell: put data to root
pack_cells_into_chain(values, abi_version) ==
    LET packed == pack_cells(values, abi_version)
    IN IF packed.err # "" THEN packed ELSE Ok(link_chain(packed.val))


\* BigInt::to_signed_bytes_be(..).len(): the least number of bytes that
\* hold the integer in two's complement (one byte for zero)
signed_bytes_len(v) ==
    IF -128 <= v /\ v < 128 THEN 1
    ELSE IF -32768 <= v /\ v < 32768 THEN 2
    ELSE IF -8388608 <= v /\ v < 8388608 THEN 3
    ELSE 4

\* the least number of bytes that hold a natural number (none for zero)
unsigned_bytes_len(v) ==
    IF v = 0 THEN 0
    ELSE IF v < 256 THEN 1
    ELSE IF v < 65536 THEN 2
    ELSE IF v < 16777216 THEN 3
    ELSE 4

write_int(number, size) == Ok(append_bits(BuilderNew, BOfInt(number, size)))

write_uint(number, size) == write_int(number, size)

write_varint(value, size) ==
    LET len == signed_bytes_len(value)
    IN IF len > size - 1 THEN Err("InvalidData")
       ELSE Ok(append_bits(
                 append_bits(BuilderNew, BOfNat(len, varint_size_len(size))),
                 BOfInt(value, len * 8)))

write_varuint(value, size) == write_varint(value, size)

write_bool(b) == Ok(append_bits(BuilderNew, Run(IF b THEN 1 ELSE 0, 1)))

write_cell(cell) == Ok(append_reference(BuilderNew, cell))

\* MsgAddress::write_to_new_cell: addr_none$00, or
\* addr_std$10 anycast:(Maybe Anycast) workchain_id:int8 address:bits256
write_address(a) ==
    IF a.kind = "none" THEN Ok(append_bits(BuilderNew, Run(0, 2)))
    ELSE Ok(append_bits(BuilderNew,
              BCat(BCat(Run(1, 1), Run(0, 2)),
                   BCat(BOfInt(a.wc, 8), a.acc))))

\* Grams::write_to_new_cell: VarUInteger 16
write_grams(g) ==
    LET len == unsigned_bytes_len(g)
    IN Ok(append_bits(BuilderNew, BCat(BOfNat(len, 4), BOfNat(g, len * 8))))

write_public_key(k) ==
    IF k # <<>> THEN Ok(append_bits(BuilderNew, BCat(Run(1, 1), k[1])))
    ELSE Ok(append_bits(BuilderNew, Run(0, 1)))

RECURSIVE write_bytes_loop(_, _, _, _)
\* while len > 0
write_bytes_loop(data, len, cell_capacity, builder) ==
    IF len = 0 THEN builder
    ELSE LET len2 == len - cell_capacity
             filled == append_bits(builder,
                         BytesSub(data, len2, cell_capacity))
             cell_len == bits_capacity \div 8
         IN write_bytes_loop(data, len2,
                             IF cell_len < len2 THEN cell_len ELSE len2,
                             append_reference(BuilderNew, filled))

\* the chain of byte cells filled from the tail of the data in every
\* version
write_bytes_tail_full(data, abi_version) ==
    LET cell_len == bits_capacity \div 8
        len == BytesLen(data)
        cell_capacity == IF cell_len < len THEN cell_len ELSE len
        builder == write_bytes_loop(data, len, cell_capacity, BuilderNew)
    IN IF references_used(builder) = 0
       THEN Ok(append_reference(builder, BuilderNew))
       ELSE Ok(builder)

write_bytes(data, abi_version) ==
    LET cell_len == bits_capacity \div 8
        len == BytesLen(data)
        cell_capacity ==
            IF abi_version = ABI_VERSION_1_0
            THEN (IF cell_len < len THEN cell_len ELSE len)
            ELSE (IF len % cell_len = 0 THEN cell_len ELSE len % cell_len)
        builder == write_bytes_loop(data, len, cell_capacity, BuilderNew)
    IN \* if bytes are empty then we need builder with ref to empty cell
       IF references_used(builder) = 0
       THEN Ok(append_reference(builder, BuilderNew))
       ELSE Ok(builder)

MAX_HASH_MAP_INFO_ABOUT_KEY == 12
STD_ADDRESS_BIT_LENGTH == 267

\* TRUE when the dictionary stores the value in the leaf itself
map_value_in_ref(key_len, value_len) ==
    MAX_HASH_MAP_INFO_ABOUT_KEY + key_len + value_len <= 1023

\* HashmapE::write_to: the maybe bit, and the root when there is one
write_hashmap(builder, key_len, entries) ==
    IF entries = {} THEN append_bits(builder, Run(0, 1))
    ELSE append_reference(append_bits(builder, Run(1, 1)),
                          DictCell(key_len, entries))

\* the leaf of a dictionary entry: the value itself (set_builder) or one
\* reference to its cell (setref)
dict_leaf(value_in_ref, data) ==
    IF value_in_ref THEN data ELSE append_reference(BuilderNew, data)

\* JSON key strings of integer map keys: detokenize_big_int and
\* detokenize_big_uint write decimal, Tokenizer::read_int reads it back
MaxKey == 3
KeyRange == (0 - MaxKey)..MaxKey
key_to_string(value) == ToString(value.v)
tokenize_key(key_type, str) ==
    IF key_type.tag \notin {"int", "uint"} THEN Err("Unmodelled")
    ELSE IF \A n \in KeyRange : ToString(n) # str THEN Err("InvalidParameterValue")
    ELSE LET n == CHOOSE n \in KeyRange : ToString(n) = str
         IN IF key_type.tag = "uint" /\ n < 0 THEN Err("InvalidParameterValue")
            ELSE Ok(Val(key_type.tag, key_type.size, n, <<>>))

RECURSIVE write_to_cells(_, _), pack_into_chain(_, _), write_tuple(_, _)
RECURSIVE put_array_into_dictionary(_, _, _), write_map(_, _, _, _)
RECURSIVE write_optional(_, _, _), write_ref(_, _), write_value(_, _)
RECURSIVE write_map_entry(_, _, _)

pack_into_chain(val, abi_version) ==
    AndThen(write_to_cells(val, abi_version),
            LAMBDA cells : pack_cells_into_chain(cells.val, abi_version))

write_tuple(tokens, abi_version) ==
    IF tokens = <<>> THEN Ok(<<>>)
    ELSE AndThen(write_to_cells(tokens[1].value, abi_version),
           LAMBDA first :
             AndThen(write_tuple(Tail(tokens), abi_version),
               LAMBDA rest : Ok(first.val \o rest.val)))

\* creates dictionary with indexes of an array items as keys and items as
\* values
put_array_into_dictionary(param_type, array, abi_version) ==
    With([i \in 1..Len(array) |-> pack_into_chain(array[i], abi_version)],
      LAMBDA packed :
        IF \E i \in 1..Len(array) : packed[i].err # ""
        THEN Err("InvalidData")
        ELSE Ok({[key |-> BOfNat(i - 1, 32),
                  leaf |-> dict_leaf(
                             map_value_in_ref(32, max_bit_size(param_type)),
                             packed[i].val)]
                  : i \in 1..Len(array)}))

\* one entry of a map: its key and its value, each serialized
write_map_entry(key_type, e, abi_version) ==
    [val |-> pack_into_chain(e.val, abi_version),
     key |-> AndThen(tokenize_key(key_type, e.key),
               LAMBDA key : write_to_cells(key.val, abi_version))]

write_map(key_type, value_type, m, abi_version) ==
    With(get_map_key_size(key_type), LAMBDA key_len :
    With([e \in m |-> write_map_entry(key_type, e, abi_version)],
      LAMBDA entry :
        IF key_len < 0 THEN Err("InvalidData")
        ELSE IF \E e \in m : entry[e].key.err # "" \/ entry[e].val.err # ""
        THEN Err("InvalidData")
        ELSE IF \E e \in m : Len(entry[e].key.val) # 1
        THEN Err("InvalidData")
        ELSE IF /\ key_type = TAddress
                /\ \E e \in m : bits_used(entry[e].key.val[1].data)
                                  # STD_ADDRESS_BIT_LENGTH
        THEN Err("InvalidData")
        ELSE Ok(write_hashmap(BuilderNew, key_len,
                  {[key |-> entry[e].key.val[1].data.bits,
                    leaf |-> dict_leaf(
                               map_value_in_ref(key_len,
                                                max_bit_size(value_type)),
                               entry[e].val.val)]
                    : e \in m}))))

write_optional(param_type, value, abi_version) ==
    IF value # <<>>
    THEN AndThen(pack_into_chain(value[1], abi_version),
           LAMBDA packed :
             IF is_large_optional(param_type)
             THEN Ok(append_reference(append_bits(BuilderNew, Run(1, 1)),
                                      packed.val))
             ELSE IF bits_used(packed.val) + 1 > bits_capacity
             THEN Err("CellOverflow")
             ELSE Ok(prepend_bits(packed.val, Run(1, 1))))
    ELSE Ok(append_bits(BuilderNew, Run(0, 1)))

write_ref(value, abi_version) ==
    AndThen(pack_into_chain(value, abi_version),
            LAMBDA packed : Ok(append_reference(BuilderNew, packed.val)))

\* the builder of one value that is not a tuple
write_value(val, abi_version) ==
    CASE val.tag = "uint" -> write_uint(val.v, val.size)
      [] val.tag = "int" -> write_int(val.v, val.size)
      [] val.tag = "varuint" -> write_varuint(val.v, val.size)
      [] val.tag = "varint" -> write_varint(val.v, val.size)
      [] val.tag = "bool" -> write_bool(val.v)
      [] val.tag = "array" ->
            AndThen(put_array_into_dictionary(val.ty[1], val.v, abi_version),
              LAMBDA map :
                Ok(write_hashmap(
                     append_bits(BuilderNew, BOfNat(Len(val.v), 32)),
                     32, map.val)))
      [] val.tag = "fixedarray" ->
            AndThen(put_array_into_dictionary(val.ty[1], val.v, abi_version),
              LAMBDA map : Ok(write_hashmap(BuilderNew, 32, map.val)))
      [] val.tag = "cell" -> write_cell(val.v)
      [] val.tag = "map" ->
            write_map(val.ty[1], val.ty[2], val.v, abi_version)
      [] val.tag = "address" -> write_address(val.v)
      [] val.tag \in {"bytes", "fixedbytes", "string"} ->
            write_bytes(val.v, abi_version)
      [] val.tag = "gram" -> write_grams(val.v)
      [] val.tag \in {"time", "expire"} -> Ok(append_bits(BuilderNew, val.v))
      [] val.tag = "pubkey" -> write_public_key(val.v)
      [] val.tag = "optional" ->
            write_optional(val.ty[1], val.v, abi_version)
      [] val.tag = "ref" -> write_ref(val.v[1], abi_version)

write_to_cells(val, abi_version) ==
    IF val.tag = "tuple" THEN write_tuple(val.v, abi_version)
    ELSE AndThen(write_value(val, abi_version),
           LAMBDA data :
             Ok(<<SerializedValue(data.val,
                                  max_bit_size(get_param_type(val)),
                                  max_refs_count(get_param_type(val)))>>))

pack_values_into_chain(tokens, cells, abi_version) ==
    AndThen(write_tuple(tokens, abi_version),
            LAMBDA more : pack_cells_into_chain(cells \o more.val, abi_version))


\* ------------------------------------------------------------------------
\* Deserializer (src/token/deserialize.rs)
\* ------------------------------------------------------------------------

\* Cursor: the slice and the max sizes read from its cell so far
Cursor(used_bits, used_refs, slice) ==
    [used_bits |-> used_bits, used_refs |-> used_refs, slice |-> slice]

\* impl From<SliceData> for Cursor
CursorFrom(slice) == Cursor(0, 0, slice)

\* a value read, and the slice (SRes) or the cursor (CRes) after it
SRes(value, slice) == [value |-> value, err |-> "", slice |-> slice]
CRes(value, cursor) == [value |-> value, err |-> "", cursor |-> cursor]
Fail(e) == [value |-> <<>>, err |-> e, slice |-> <<>>, cursor |-> <<>>]

\* moves to the next cell of the chain when this one is read out, and
\* checks that `bits` bits are there
find_next_bits(cursor, bits) ==
    AndThen(IF remaining_bits(cursor) = 0
            THEN IF has_reference(cursor, 1)
                 THEN Fail("IncompleteDeserializationError")
                 ELSE IF ~has_reference(cursor, 0)
                 THEN Fail("CellUnderflow")
                 ELSE SRes(<<>>, SliceOf(slice_reference(cursor, 0)))
            ELSE SRes(<<>>, cursor),
      LAMBDA moved :
        IF remaining_bits(moved.slice) >= bits THEN moved
        ELSE Fail("DeserializationError"))

\* the next `bits` bits, and the slice after them
get_next_bits_from_chain(cursor, bits) ==
    AndThen(find_next_bits(cursor, bits),
      LAMBDA found :
        SRes(peek_bits(found.slice, bits), skip_bits(found.slice, bits)))

\* SliceData::get_next_bits and the like, on the slice itself
get_next_bits(slice, bits) ==
    IF remaining_bits(slice) < bits THEN Fail("CellUnderflow")
    ELSE SRes(peek_bits(slice, bits), skip_bits(slice, bits))

checked_drain_reference(slice) ==
    IF remaining_references(slice) = 0 THEN Fail("CellUnderflow")
    ELSE SRes(slice_reference(slice, 0), drain_reference(slice))

read_uint_from_chain(size, cursor) ==
    AndThen(get_next_bits_from_chain(cursor, size),
            LAMBDA got : SRes(BToNat(got.value), got.slice))

read_int_from_chain(size, cursor) ==
    AndThen(get_next_bits_from_chain(cursor, size),
            LAMBDA got : SRes(BToInt(got.value), got.slice))

read_uint(size, cursor) ==
    AndThen(read_uint_from_chain(size, cursor),
            LAMBDA got : SRes(VUint(size, got.value), got.slice))

read_int(size, cursor) ==
    AndThen(read_int_from_chain(size, cursor),
            LAMBDA got : SRes(VInt(size, got.value), got.slice))

read_varuint(size, cursor) ==
    AndThen(read_uint_from_chain(varint_size_len(size), cursor),
      LAMBDA len :
        IF len.value = 0 THEN SRes(VVarUint(size, 0), len.slice)
        ELSE AndThen(read_uint_from_chain(len.value * 8, len.slice),
               LAMBDA got : SRes(VVarUint(size, got.value), got.slice)))

read_varint(size, cursor) ==
    AndThen(read_uint_from_chain(varint_size_len(size), cursor),
      LAMBDA len :
        IF len.value = 0 THEN SRes(VVarInt(size, 0), len.slice)
        ELSE AndThen(read_int_from_chain(len.value * 8, len.slice),
               LAMBDA got : SRes(VVarInt(size, got.value), got.slice)))

read_bool(cursor) ==
    AndThen(find_next_bits(cursor, 1),
      LAMBDA found :
        SRes(VBool(peek_bits(found.slice, 1) = Run(1, 1)),
             skip_bits(found.slice, 1)))

\* MsgAddress::construct_from, for addr_none and non-anycast addr_std
read_address(cursor) ==
    AndThen(find_next_bits(cursor, 1), LAMBDA found :
    AndThen(get_next_bits(found.slice, 2), LAMBDA tag :
      IF tag.value = Run(0, 2) THEN SRes(VAddress(AddrNone), tag.slice)
      ELSE IF tag.value # BCat(Run(1, 1), Run(0, 1)) THEN Fail("Unmodelled")
      ELSE AndThen(get_next_bits(tag.slice, 265), LAMBDA body :
             IF BTake(body.value, 1) # Run(0, 1) THEN Fail("Unmodelled")
             ELSE SRes(VAddress(AddrStd(BToInt(BSub(body.value, 1, 8)),
                                        BDrop(body.value, 9))),
                       body.slice))))

\* Grams::construct_from: VarUInteger 16
read_grams(cursor) ==
    AndThen(find_next_bits(cursor, 1), LAMBDA found :
    AndThen(get_next_bits(found.slice, 4), LAMBDA len :
    AndThen(get_next_bits(len.slice, BToNat(len.value) * 8), LAMBDA got :
      SRes(VToken(BToNat(got.value)), got.slice))))

read_time(cursor) ==
    AndThen(find_next_bits(cursor, 64),
      LAMBDA found :
        SRes(VTime(peek_bits(found.slice, 64)), skip_bits(found.slice, 64)))

read_expire(cursor) ==
    AndThen(find_next_bits(cursor, 32),
      LAMBDA found :
        SRes(VExpire(peek_bits(found.slice, 32)), skip_bits(found.slice, 32)))

read_public_key(cursor) ==
    AndThen(find_next_bits(cursor, 1),
      LAMBDA found :
        IF peek_bits(found.slice, 1) = Run(1, 1)
        THEN AndThen(get_next_bits_from_chain(skip_bits(found.slice, 1), 256),
               LAMBDA key : SRes(VPublicKey(<<key.value>>), key.slice))
        ELSE SRes(VPublicKey(<<>>), skip_bits(found.slice, 1)))

read_cell(cursor, last, abi_version) ==
    IF /\ remaining_references(cursor) = 1
       /\ \/ /\ abi_version = ABI_VERSION_1_0
             /\ Len(cursor.cell.refs) = references_capacity
          \/ /\ abi_version # ABI_VERSION_1_0
             /\ ~last
             /\ remaining_bits(cursor) = 0
    THEN checked_drain_reference(SliceOf(slice_reference(cursor, 0)))
    ELSE checked_drain_reference(cursor)

RECURSIVE bytes_of_chain(_)
\* the data of the cells of a bytes chain, head first
bytes_of_chain(cell) ==
    IF BLen(cell.bits) % 8 # 0 THEN Fail("DeserializationError")
    ELSE IF cell.refs = <<>> THEN SRes(cell.bits, <<>>)
    ELSE AndThen(bytes_of_chain(cell.refs[1]),
           LAMBDA rest : SRes(BCat(cell.bits, rest.value), <<>>))

read_bytes_from_chain(cursor, last, abi_version) ==
    AndThen(read_cell(cursor, last, abi_version), LAMBDA got :
    AndThen(bytes_of_chain(got.value), LAMBDA data :
      SRes(data.value, got.slice)))

\* size: <<>> for bytes, <<n>> for fixedbytes
read_bytes(size, cursor, last, abi_version) ==
    AndThen(read_bytes_from_chain(cursor, last, abi_version),
      LAMBDA got :
        IF size = <<>> THEN SRes(VBytes(got.value), got.slice)
        ELSE IF size[1] = BytesLen(got.value)
        THEN SRes(VFixedBytes(got.value), got.slice)
        ELSE Fail("DeserializationError"))

read_string(cursor, last, abi_version) ==
    AndThen(read_bytes_from_chain(cursor, last, abi_version),
            LAMBDA got : SRes(VString(got.value), got.slice))

check_full_decode(allow_partial, remaining) ==
    IF /\ ~allow_partial
       /\ (remaining_references(remaining) # 0 \/ remaining_bits(remaining) # 0)
    THEN Fail("IncompleteDeserializationError")
    ELSE SRes(<<>>, remaining)

\* the layout check without the limit on the max sizes met in one cell
check_layout_actual_sizes(param_type, original_cursor, new_slice, abi_version, last) ==
    LET cursor == original_cursor
        new_cell == new_slice.cell
        orig_cell == cursor.slice.cell
        param_max_bits == max_bit_size(param_type)
        param_max_refs == max_refs_count(param_type)
        param_bits == new_slice.pos
        param_refs == new_slice.rpos
    IN IF VerGE(abi_version, ABI_VERSION_2_2)
       THEN IF new_cell # orig_cell
            THEN IF /\ cursor.used_bits + param_max_bits <= bits_capacity
                    /\ \/ last /\ cursor.used_refs + param_max_refs
                                    <= references_capacity
                       \/ ~last /\ cursor.used_refs + param_max_refs
                                    <= references_capacity - 1
                 THEN Fail("WrongDataLayout")
                 ELSE CRes(<<>>, Cursor(param_max_bits, param_max_refs,
                                         cursor.slice))
            ELSE IF FALSE
                 THEN Fail("WrongDataLayout")
                 ELSE CRes(<<>>, Cursor(cursor.used_bits + param_max_bits,
                                         cursor.used_refs + param_max_refs,
                                         cursor.slice))
       ELSE IF /\ new_cell # orig_cell
               /\ param_bits <= bits_capacity - BLen(orig_cell.bits)
               /\ \/ last /\ param_refs + Len(orig_cell.refs)
                               <= references_capacity
                  \/ (~last \/ abi_version = ABI_VERSION_1_0)
                       /\ param_refs + Len(orig_cell.refs)
                               <= references_capacity - 1
            THEN Fail("WrongDataLayout")
            ELSE CRes(<<>>, cursor)

\* the layout check of a value read from original_cursor up to new_slice:
\* the cursor with its totals brought up to date, or WrongDataLayout
check_layout(param_type, original_cursor, new_slice, abi_version, last) ==
    LET cursor == original_cursor
        new_cell == new_slice.cell
        orig_cell == cursor.slice.cell
        param_max_bits == max_bit_size(param_type)
        param_max_refs == max_refs_count(param_type)
        param_bits == new_slice.pos
        param_refs == new_slice.rpos
    IN IF VerGE(abi_version, ABI_VERSION_2_2)
       THEN IF new_cell # orig_cell
            THEN IF /\ cursor.used_bits + param_max_bits <= bits_capacity
                    /\ \/ last /\ cursor.used_refs + param_max_refs
                                    <= references_capacity
                       \/ ~last /\ cursor.used_refs + param_max_refs
                                    <= references_capacity - 1
                 THEN Fail("WrongDataLayout")
                 ELSE CRes(<<>>, Cursor(param_max_bits, param_max_refs,
                                         cursor.slice))
            ELSE IF \/ cursor.used_bits + param_max_bits > bits_capacity
                    \/ cursor.used_refs + param_max_refs > references_capacity
                 THEN Fail("WrongDataLayout")
                 ELSE CRes(<<>>, Cursor(cursor.used_bits + param_max_bits,
                                         cursor.used_refs + param_max_refs,
                                         cursor.slice))
       ELSE IF /\ new_cell # orig_cell
               /\ param_bits <= bits_capacity - BLen(orig_cell.bits)
               /\ \/ last /\ param_refs + Len(orig_cell.refs)
                               <= references_capacity
                  \/ (~last \/ abi_version = ABI_VERSION_1_0)
                       /\ param_refs + Len(orig_cell.refs)
                               <= references_capacity - 1
            THEN Fail("WrongDataLayout")
            ELSE CRes(<<>>, cursor)


\* SliceData::get_dictionary and HashmapE::with_hashmap: the entries of the
\* dictionary at the slice, and the slice after it.  A reference that does
\* not hold a dictionary of this key length does not parse.
get_dictionary(slice, key_len) ==
    IF peek_bits(slice, 1) = Run(0, 1) THEN SRes({}, skip_bits(slice, 1))
    ELSE IF remaining_references(slice) = 0 THEN Fail("CellUnderflow")
    ELSE With(slice_reference(slice, 0),
           LAMBDA root :
             IF root.dict = <<>> \/ root.dict[1] # key_len
             THEN Fail("DictionaryError")
             ELSE SRes(root.dict[2], drain_reference(skip_bits(slice, 1))))

\* the slice of a dictionary value: the leaf, or the cell it refers to
leaf_slice(value_in_ref, leaf) ==
    IF value_in_ref
    THEN AndThen(checked_drain_reference(SliceOf(leaf)),
                 LAMBDA got : SRes(<<>>, SliceOf(got.value)))
    ELSE SRes(<<>>, SliceOf(leaf))

\* the first error of a sequence of results, when there is one
first_error(results) ==
    results[CHOOSE i \in 1..Len(results) :
              /\ results[i].err # ""
              /\ \A j \in 1..(i - 1) : results[j].err = ""]

RECURSIVE read_from(_, _, _, _, _), read_tuple(_, _, _, _, _)
RECURSIVE read_array_from_map(_, _, _, _, _), read_hashmap(_, _, _, _, _)
RECURSIVE read_optional(_, _, _, _, _), read_ref(_, _, _, _, _)
RECURSIVE decode_params_loop(_, _, _, _, _, _), read_value(_, _, _, _, _)
RECURSIVE read_array(_, _, _, _), read_fixed_array(_, _, _, _, _)
RECURSIVE read_array_item(_, _, _, _, _), read_hashmap_entry(_, _, _, _, _, _)

\* the item of index i of an array kept in the dictionary `map`
read_array_item(item_type, map, i, abi_version, allow_partial) ==
    AndThen(leaf_slice(map_value_in_ref(32, max_bit_size(item_type)),
                       (CHOOSE e \in map : e.key = BOfNat(i, 32)).leaf),
      LAMBDA item_slice :
        read_from(item_type, CursorFrom(item_slice.slice), TRUE, abi_version,
                  allow_partial))

read_array_from_map(item_type, cursor0, size, abi_version, allow_partial) ==
    AndThen(find_next_bits(cursor0, 1), LAMBDA cursor :
    AndThen(get_dictionary(cursor.slice, 32), LAMBDA map :
      IF Cardinality(map.value) # size THEN Fail("DeserializationError")
      ELSE IF \E i \in 0..(size - 1) :
                 \A e \in map.value : e.key # BOfNat(i, 32)
      THEN Fail("DeserializationError")
      ELSE With([i \in 1..size |->
                   read_array_item(item_type, map.value, i - 1, abi_version,
                                   allow_partial)],
             LAMBDA items :
               IF \E i \in 1..size : items[i].err # ""
               THEN Fail(first_error(items).err)
               ELSE SRes([i \in 1..size |-> items[i].value], map.slice))))

read_array(item_type, cursor0, abi_version, allow_partial) ==
    AndThen(find_next_bits(cursor0, 32), LAMBDA cursor :
    AndThen(read_array_from_map(item_type, skip_bits(cursor.slice, 32),
                                BToNat(peek_bits(cursor.slice, 32)),
                                abi_version, allow_partial),
      LAMBDA got : SRes(VArray(item_type, got.value), got.slice)))

read_fixed_array(item_type, size, cursor, abi_version, allow_partial) ==
    AndThen(read_array_from_map(item_type, cursor, size, abi_version,
                                allow_partial),
            LAMBDA got : SRes(VFixedArray(item_type, got.value), got.slice))

\* one entry of a dictionary read as a map entry: its key and its value
read_hashmap_entry(key_type, value_type, bit_len, e, abi_version, allow_partial) ==
    [value |-> AndThen(leaf_slice(map_value_in_ref(bit_len,
                                                   max_bit_size(value_type)),
                                  e.leaf),
                 LAMBDA value_slice :
                   read_from(value_type, CursorFrom(value_slice.slice), TRUE,
                             abi_version, allow_partial)),
     key |-> read_from(key_type, CursorFrom(SliceOf(MkCell(e.key, <<>>))),
                       TRUE, abi_version, allow_partial)]

read_hashmap(key_type, value_type, cursor0, abi_version, allow_partial) ==
    With(get_map_key_size(key_type), LAMBDA bit_len :
      IF bit_len < 0 THEN Fail("InvalidData")
      ELSE
      AndThen(find_next_bits(cursor0, 1), LAMBDA cursor :
      AndThen(get_dictionary(cursor.slice, bit_len), LAMBDA hashmap :
        With([e \in hashmap.value |->
                read_hashmap_entry(key_type, value_type, bit_len, e,
                                   abi_version, allow_partial)],
          LAMBDA read :
            IF \E e \in hashmap.value : read[e].key.err # ""
            THEN Fail(read[CHOOSE e \in hashmap.value :
                             read[e].key.err # ""].key.err)
            ELSE IF \E e \in hashmap.value : read[e].value.err # ""
            THEN Fail(read[CHOOSE e \in hashmap.value :
                             read[e].value.err # ""].value.err)
            ELSE SRes(VMap(key_type, value_type,
                           {[val |-> read[e].value.value,
                             key |-> key_to_string(read[e].key.value)]
                             : e \in hashmap.value}),
                      hashmap.slice)))))

read_optional(inner_type, cursor0, last, abi_version, allow_partial) ==
    AndThen(find_next_bits(cursor0, 1), LAMBDA found :
    With(skip_bits(found.slice, 1), LAMBDA cursor :
      IF peek_bits(found.slice, 1) = Run(0, 1)
      THEN SRes(VOptional(inner_type, <<>>), cursor)
      ELSE IF is_large_optional(inner_type)
      THEN AndThen(checked_drain_reference(cursor), LAMBDA cell :
           AndThen(read_from(inner_type, CursorFrom(SliceOf(cell.value)),
                             TRUE, abi_version, allow_partial),
             LAMBDA result :
               SRes(VOptional(inner_type, <<result.value>>), cell.slice)))
      ELSE AndThen(read_from(inner_type, CursorFrom(cursor), last,
                             abi_version, allow_partial),
             LAMBDA result :
               SRes(VOptional(inner_type, <<result.value>>),
                    result.cursor.slice))))

read_ref(inner_type, cursor, last, abi_version, allow_partial) ==
    AndThen(read_cell(cursor, last, abi_version), LAMBDA cell :
    AndThen(read_from(inner_type, CursorFrom(SliceOf(cell.value)), TRUE,
                      abi_version, allow_partial),
      LAMBDA result : SRes(VRef(result.value), cell.slice)))

read_tuple(tuple_params, cursor, last, abi_version, allow_partial) ==
    AndThen(decode_params_loop(tuple_params, 1, <<>>, cursor, abi_version,
                               allow_partial \/ ~last),
            LAMBDA got : CRes(VTuple(got.value), got.cursor))

\* the value of a type that is not a tuple, and the slice after it
read_value(param_type, slice, last, abi_version, allow_partial) ==
    CASE param_type.tag = "uint" -> read_uint(param_type.size, slice)
      [] param_type.tag = "int" -> read_int(param_type.size, slice)
      [] param_type.tag = "varuint" -> read_varuint(param_type.size, slice)
      [] param_type.tag = "varint" -> read_varint(param_type.size, slice)
      [] param_type.tag = "bool" -> read_bool(slice)
      [] param_type.tag = "array" ->
           read_array(param_type.sub[1], slice, abi_version, allow_partial)
      [] param_type.tag = "fixedarray" ->
           read_fixed_array(param_type.sub[1], param_type.size, slice,
                            abi_version, allow_partial)
      [] param_type.tag = "cell" ->
           AndThen(read_cell(slice, last, abi_version),
                   LAMBDA got : SRes(VCell(got.value), got.slice))
      [] param_type.tag = "map" ->
           read_hashmap(param_type.sub[1], param_type.sub[2], slice,
                        abi_version, allow_partial)
      [] param_type.tag = "address" -> read_address(slice)
      [] param_type.tag = "bytes" -> read_bytes(<<>>, slice, last, abi_version)
      [] param_type.tag = "fixedbytes" ->
           read_bytes(<<param_type.size>>, slice, last, abi_version)
      [] param_type.tag = "string" -> read_string(slice, last, abi_version)
      [] param_type.tag = "gram" -> read_grams(slice)
      [] param_type.tag = "time" -> read_time(slice)
      [] param_type.tag = "expire" -> read_expire(slice)
      [] param_type.tag = "pubkey" -> read_public_key(slice)
      [] param_type.tag = "optional" ->
           read_optional(param_type.sub[1], slice, last, abi_version,
                         allow_partial)
      [] param_type.tag = "ref" ->
           read_ref(param_type.sub[1], slice, last, abi_version,
                    allow_partial)

read_from(param_type, cursor, last, abi_version, allow_partial) ==
    IF param_type.tag = "tuple"
    THEN read_tuple(param_type.sub, cursor, last, abi_version, allow_partial)
    ELSE
    AndThen(read_value(param_type, cursor.slice, last, abi_version,
                       allow_partial), LAMBDA read :
    AndThen(IF last THEN check_full_decode(allow_partial, read.slice)
            ELSE read, LAMBDA full :
    AndThen(check_layout(param_type, cursor, read.slice, abi_version, last),
      LAMBDA checked :
        CRes(read.value, [checked.cursor EXCEPT !.slice = read.slice]))))

\* the loop of decode_params_with_cursor from parameter i on
decode_params_loop(params, i, tokens, cursor, abi_version, allow_partial) ==
    IF i > Len(params) THEN CRes(tokens, cursor)
    ELSE AndThen(read_from(params[i].kind, cursor,
                           params[i] = params[Len(params)], abi_version,
                           allow_partial),
           LAMBDA got :
             decode_params_loop(params, i + 1,
                 Append(tokens, Token(params[i].name, got.value)),
                 got.cursor, abi_version, allow_partial))

decode_params_with_cursor(params, cursor, abi_version, allow_partial) ==
    decode_params_loop(params, 1, <<>>, cursor, abi_version, allow_partial)

decode_params(params, cursor, abi_version, allow_partial) ==
    AndThen(decode_params_with_cursor(params, CursorFrom(cursor),
                                      abi_version, allow_partial),
            LAMBDA got : SRes(got.value, <<>>))


\* ------------------------------------------------------------------------
\* Function (src/function.rs)
\* ------------------------------------------------------------------------

\* SIGNATURE_LENGTH * 8 and the u32 width
SIGNATURE_BITS == 64 * 8
ID_BITS == 32

\* an input id that is the digest word as it is
keep_high_bit(id) == id

\* id & 0x7FFFFFFF and id | 0x80000000 on a 32-bit word
clear_high_bit(id) == BCat(Run(0, 1), BDrop(id, 1))
set_high_bit(id) == BCat(Run(1, 1), BDrop(id, 1))

\* SerdeFunction
SerdeFunction(name, inputs, outputs, id) ==
    [name |-> name, id |-> id, inputs |-> inputs, outputs |-> outputs]

\* Function::from_serde.  function_hash stands for the first four bytes of
\* the SHA-256 digest of the signature (calc_function_id): any 32-bit word.
from_serde(abi_version, serde_function, header, function_hash) ==
    LET function == [name |-> serde_function.name,
                     abi_version |-> abi_version,
                     inputs |-> serde_function.inputs,
                     outputs |-> serde_function.outputs,
                     header |-> header,
                     input_id |-> BOfNat(0, ID_BITS),
                     output_id |-> BOfNat(0, ID_BITS)]
    IN IF serde_function.id # <<>>
       THEN [function EXCEPT !.input_id = serde_function.id[1],
                             !.output_id = serde_function.id[1]]
       ELSE [function EXCEPT !.input_id = clear_high_bit(function_hash),
                             !.output_id = set_high_bit(function_hash)]

\* u32::max_value()
U32_MAX == Run(1, 32)

\* now: Utc::now().timestamp_millis() as u64
get_default_value_for_header(param_type, now) ==
    CASE param_type.tag = "time" -> Ok(VTime(now))
      [] param_type.tag = "expire" -> Ok(VExpire(U32_MAX))
      [] param_type.tag = "pubkey" -> Ok(VPublicKey(<<>>))
      [] OTHER -> Err("InvalidInputData")

\* HashMap<String, TokenValue>::get on the tokens of a map, their names
\* distinct
header_get(header_tokens, name) ==
    IF \E i \in 1..Len(header_tokens) : header_tokens[i].name = name
    THEN <<header_tokens[CHOOSE i \in 1..Len(header_tokens) :
                           header_tokens[i].name = name].value>>
    ELSE <<>>

\* one header parameter serialized: the given token, or the default value
encode_header_param(param, token, abi_version, now) ==
    IF token # <<>>
    THEN IF ~type_check(token[1], param.kind)
         THEN Err("WrongParameterType")
         ELSE write_to_cells(token[1], abi_version)
    ELSE AndThen(get_default_value_for_header(param.kind, now),
           LAMBDA default : write_to_cells(default.val, abi_version))

RECURSIVE encode_header_params(_, _, _, _)
\* for param in &self.header
encode_header_params(params, header_tokens, abi_version, now) ==
    IF params = <<>> THEN Ok(<<>>)
    ELSE AndThen(encode_header_param(params[1],
                     header_get(header_tokens, params[1].name),
                     abi_version, now), LAMBDA cells :
         AndThen(encode_header_params(Tail(params), header_tokens,
                                      abi_version, now), LAMBDA rest :
           Ok(cells.val \o rest.val)))

encode_header(function, header_tokens, internal, now) ==
    AndThen(IF ~internal
            THEN encode_header_params(function.header, header_tokens,
                                      function.abi_version, now)
            ELSE Ok(<<>>),
      LAMBDA vec :
        IF function.abi_version.major = 1
        THEN Ok(<<SerializedFrom(append_bits(BuilderNew, function.input_id))>>
                \o vec.val)
        ELSE Ok(vec.val
                \o <<SerializedFrom(append_bits(BuilderNew,
                                                function.input_id))>>))

\* the builder that reserves the place of the signature:
\* [data, remove_ref, remove_bits]
sign_builder(abi_version, reserve_sign) ==
    IF abi_version.major = 1
    THEN [data |-> append_reference(BuilderNew, EmptyCell),
          remove_ref |-> TRUE, remove_bits |-> 0]
    ELSE IF reserve_sign
    THEN IF VerGE(abi_version, ABI_VERSION_2_3)
         THEN [data |-> append_bits(BuilderNew,
                                    Run(0, max_bit_size(TAddress))),
               remove_ref |-> FALSE, remove_bits |-> max_bit_size(TAddress)]
         ELSE [data |-> append_bits(BuilderNew,
                                    BCat(Run(1, 1), Run(0, SIGNATURE_BITS))),
               remove_ref |-> FALSE, remove_bits |-> 1 + SIGNATURE_BITS]
    ELSE [data |-> append_bits(BuilderNew, Run(0, 1)),
          remove_ref |-> FALSE, remove_bits |-> 1]

\* the reserved signature prelude of create_unsigned_call, as the first
\* serialized value: [cell, remove_ref, remove_bits]
sign_prelude(abi_version, reserve_sign) ==
    With(sign_builder(abi_version, reserve_sign),
      LAMBDA sign :
        [cell |-> [n |-> 1,
                   data |-> sign.data,
                   max_bits |-> IF VerGE(abi_version, ABI_VERSION_2_3)
                                THEN max_bit_size(TAddress)
                                ELSE 1 + SIGNATURE_BITS,
                   max_refs |-> IF sign.remove_ref THEN 1 ELSE 0],
         remove_ref |-> sign.remove_ref,
         remove_bits |-> sign.remove_bits])

\* repr_hash: kept as the cell it digests, so that two hashes are equal
\* exactly when their pre-images are
repr_hash(cell) == [preimage |-> cell]

CallRes(builder, hash) == [err |-> "", builder |-> builder, hash |-> hash]
CallErr(e) == [err |-> e, builder |-> <<>>, hash |-> <<>>]

\* the serialized values ahead of the inputs: prelude, header with the
\* selector
call_cells(function, header, internal, reserve_sign, now) ==
    AndThen(encode_header(function, header, internal, now),
      LAMBDA cells :
        IF internal THEN cells
        ELSE Ok(<<sign_prelude(function.abi_version, reserve_sign).cell>>
                \o cells.val))

\* delete reserved sign before hash
remove_prelude(abi_version, reserve_sign, builder) ==
    With(sign_builder(abi_version, reserve_sign), LAMBDA sign :
    AndThen(IF sign.remove_ref THEN checked_drain_reference(SliceOf(builder))
            ELSE SRes(<<>>, SliceOf(builder)), LAMBDA no_ref :
    AndThen(IF sign.remove_bits # 0
            THEN get_next_bits(no_ref.slice, sign.remove_bits)
            ELSE no_ref, LAMBDA no_bits :
      Ok(from_slice(no_bits.slice)))))

\* a hash to sign that leaves the destination address out
call_hash_body_alone(abi_version, reserve_sign, address, builder) ==
    CallRes(builder, repr_hash(builder))

\* a hash to sign that takes the destination address in when there is one
call_hash_address_optional(abi_version, reserve_sign, address, builder) ==
    IF VerGE(abi_version, ABI_VERSION_2_3) /\ reserve_sign /\ address # <<>>
    THEN With(write_address(address[1]).val,
           LAMBDA address_builder :
             IF ~can_append(address_builder, builder)
             THEN CallErr("CellOverflow")
             ELSE CallRes(builder,
                    repr_hash(append_builder(address_builder, builder))))
    ELSE CallRes(builder, repr_hash(builder))

\* the hash to sign of a body without its prelude
call_hash(abi_version, reserve_sign, address, builder) ==
    IF VerGE(abi_version, ABI_VERSION_2_3) /\ reserve_sign
    THEN IF address = <<>> THEN CallErr("AddressRequired")
         ELSE With(write_address(address[1]).val,
                LAMBDA address_builder :
                  IF ~can_append(address_builder, builder)
                  THEN CallErr("CellOverflow")
                  ELSE CallRes(builder,
                         repr_hash(append_builder(address_builder, builder))))
    ELSE CallRes(builder, repr_hash(builder))

\* address: <<>> or <<MsgAddressInt>>
create_unsigned_call(function, header, input, internal, reserve_sign, address, now) ==
    IF ~types_check(input, function.inputs)
    THEN CallErr("WrongParameterType")
    ELSE
    Try(call_cells(function, header, internal, reserve_sign, now),
        CallErr, LAMBDA cells :
    Try(pack_values_into_chain(input, cells.val, function.abi_version),
        CallErr, LAMBDA packed :
    Try(IF internal THEN packed
        ELSE remove_prelude(function.abi_version, reserve_sign, packed.val),
        CallErr, LAMBDA builder :
      call_hash(function.abi_version, reserve_sign, address, builder.val))))

\* signature, public_key: <<>> or <<bytes>>
fill_sign(abi_version, signature, public_key, builder) ==
    IF abi_version = ABI_VERSION_1_0
    THEN IF references_free(builder) = 0 THEN Err("InvalidInputData")
         ELSE Ok(prepend_reference(builder,
                   IF signature # <<>>
                   THEN MkCell(IF public_key # <<>>
                               THEN BCat(signature[1], public_key[1])
                               ELSE signature[1], <<>>)
                   ELSE EmptyCell))
    ELSE With(IF signature # <<>>
              THEN append_bits(append_bits(BuilderNew, Run(1, 1)),
                               signature[1])
              ELSE append_bits(BuilderNew, Run(0, 1)),
           LAMBDA sign :
             IF ~can_append(sign, builder) THEN Err("CellOverflow")
             ELSE Ok(append_builder(sign, builder)))


\* pair: <<>> or <<[public, signature]>>, the signature being what the key
\* pair signs the hash with
encode_input(function, header, input, internal, pair, address, now) ==
    Try(create_unsigned_call(function, header, input, internal,
                             pair # <<>>, address, now),
        Err, LAMBDA call_ :
      IF internal THEN Ok(call_.builder)
      ELSE IF pair # <<>>
      THEN fill_sign(function.abi_version, <<pair[1].signature>>,
                     <<pair[1].public>>, call_.builder)
      ELSE fill_sign(function.abi_version, <<>>, <<>>, call_.builder))

HeaderRes(tokens, id, cursor) ==
    [tokens |-> tokens, err |-> "", cursor |-> cursor, id |-> id]
HeaderErr(e) == [tokens |-> <<>>, err |-> e, cursor |-> <<>>, id |-> <<>>]

RECURSIVE decode_header_params(_, _, _, _)
\* for param in header: every read starts from the slice alone
decode_header_params(header, tokens, cursor, abi_version) ==
    IF header = <<>> THEN SRes(tokens, cursor)
    ELSE AndThen(read_from(header[1].kind, CursorFrom(cursor), FALSE,
                           abi_version, FALSE),
           LAMBDA got :
             decode_header_params(Tail(header),
                 Append(tokens, Token(header[1].name, got.value)),
                 got.cursor.slice, abi_version))

\* the signature of an external body read over: the slice after it
skip_signature(abi_version, cursor) ==
    IF abi_version = ABI_VERSION_1_0 THEN checked_drain_reference(cursor)
    ELSE AndThen(get_next_bits(cursor, 1),
           LAMBDA flag :
             IF flag.value = Run(1, 1)
             THEN get_next_bits(flag.slice, SIGNATURE_BITS)
             ELSE flag)

decode_header(abi_version, cursor0, header, internal) ==
    Try(IF abi_version = ABI_VERSION_1_0
        THEN get_next_bits(cursor0, ID_BITS)
        ELSE SRes(BOfNat(0, ID_BITS), cursor0), HeaderErr, LAMBDA id1 :
    Try(IF internal THEN id1 ELSE skip_signature(abi_version, id1.slice),
        HeaderErr, LAMBDA sign :
    Try(IF internal THEN SRes(<<>>, sign.slice)
        ELSE decode_header_params(header, <<>>, sign.slice, abi_version),
        HeaderErr, LAMBDA params :
    Try(IF abi_version = ABI_VERSION_1_0 THEN SRes(id1.value, params.slice)
        ELSE get_next_bits(params.slice, ID_BITS), HeaderErr, LAMBDA id2 :
      HeaderRes(params.value, id2.value, id2.slice)))))

\* Function::decode_input
function_decode_input(function, data, internal, allow_partial) ==
    Try(decode_header(function.abi_version, data, function.header, internal),
        Fail, LAMBDA header :
      IF header.id # function.input_id THEN Fail("WrongId")
      ELSE decode_params(function.inputs, header.cursor,
                         function.abi_version, allow_partial))

decode_input_id(abi_version, cursor, header, internal) ==
    Try(decode_header(abi_version, cursor, header, internal),
        Fail, LAMBDA got : SRes(got.id, <<>>))

SigRes(signature, hash) ==
    [err |-> "", hash |-> hash, signature |-> signature]
SigErr(e) == [err |-> e, hash |-> <<>>, signature |-> <<>>]

\* the signature of a body, and the slice after it
read_signature(abi_version, cursor) ==
    IF abi_version = ABI_VERSION_1_0
    THEN AndThen(checked_drain_reference(cursor), LAMBDA cell :
         AndThen(get_next_bits(SliceOf(cell.value), SIGNATURE_BITS),
           LAMBDA got : SRes(got.value, cell.slice)))
    ELSE AndThen(get_next_bits(cursor, 1),
           LAMBDA flag :
             IF flag.value = Run(1, 1)
             THEN get_next_bits(flag.slice, SIGNATURE_BITS)
             ELSE Fail("InvalidData"))

\* a reader that hashes the body alone in every version
get_signature_data_body_alone(abi_version, cursor0, address) ==
    Try(read_signature(abi_version, cursor0), SigErr,
      LAMBDA signature :
        SigRes(signature.value, repr_hash(from_slice(signature.slice))))

get_signature_data(abi_version, cursor0, address) ==
    Try(read_signature(abi_version, cursor0), SigErr,
      LAMBDA signature :
        IF VerGE(abi_version, ABI_VERSION_2_3)
        THEN IF address = <<>> THEN SigErr("AddressRequired")
             ELSE With(write_address(address[1]).val,
                    LAMBDA address_builder :
                      IF ~can_append(address_builder,
                                     from_slice(signature.slice))
                      THEN SigErr("CellOverflow")
                      ELSE SigRes(signature.value,
                             repr_hash(append_builder(address_builder,
                                          from_slice(signature.slice)))))
        ELSE SigRes(signature.value, repr_hash(from_slice(signature.slice))))

\* ------------------------------------------------------------------------
\* Contract (src/contract.rs)
\* ------------------------------------------------------------------------

\* Contract::function_by_id: the functions with this id; the map is walked
\* in no fixed order and the first match returned
function_by_id(contract, id, input) ==
    {func \in contract.functions :
        (IF input THEN func.input_id ELSE func.output_id) = id}

DecodedMessage(function_name, tokens) ==
    [tokens |-> tokens, err |-> "", function_name |-> function_name]
DecodedErr(e) == [tokens |-> <<>>, err |-> e, function_name |-> ""]

\* Contract::decode_input: the set of its possible results
contract_decode_input(contract, data, internal, allow_partial) ==
    Try(decode_input_id(contract.abi_version, data, contract.header,
                        internal),
        LAMBDA e : {DecodedErr(e)}, LAMBDA func_id :
    With(function_by_id(contract, func_id.value, TRUE), LAMBDA funcs :
      IF funcs = {} THEN {DecodedErr("InvalidFunctionId")}
      ELSE {Try(function_decode_input(func, data, internal, allow_partial),
                DecodedErr,
                LAMBDA tokens_ : DecodedMessage(func.name, tokens_.value))
              : func \in funcs}))


\* Event::from_serde
event_from_serde(abi_version, serde_event, function_hash) ==
    [name |-> serde_event.name,
     abi_version |-> abi_version,
     id |-> IF serde_event.id # <<>> THEN serde_event.id[1]
            ELSE clear_high_bit(function_hash),
     inputs |-> serde_event.inputs]

\* SerdeContract.  version: <<>> or <<the parsed "major.minor">>;
\* abi_version: <<>> or <<the legacy "ABI version" number>>; functions and
\* events carry the digest word of their signature beside the parsed item.
SerdeContract(version, abi_version, set_time, header, functions, events, data, fields) ==
    [abi_version |-> abi_version, data |-> data,
     header |-> header, functions |-> functions, version |-> version,
     set_time |-> set_time, events |-> events, fields |-> fields]

\* "" or the error
check_params_support(abi_version, params) ==
    IF \E i \in 1..Len(params) : ~is_supported(params[i].kind, abi_version)
    THEN "NotSupported"
    ELSE ""

LoadErr(e) == [err |-> e, contract |-> <<>>]

\* HashMap::insert of the items of a sequence by name: the last one of a
\* name stays
by_name(items) ==
    {items[i] : i \in {i \in 1..Len(items) :
                         \A j \in (i + 1)..Len(items) :
                             items[j].name # items[i].name}}

\* the first error of the checks of the functions, in order
functions_support(version, functions) ==
    LET err(i) == IF check_params_support(version, functions[i].serde.inputs) # ""
                  THEN check_params_support(version, functions[i].serde.inputs)
                  ELSE check_params_support(version, functions[i].serde.outputs)
    IN IF \E i \in 1..Len(functions) : err(i) # "" THEN "NotSupported" ELSE ""

events_support(version, events) ==
    IF \E i \in 1..Len(events) :
           check_params_support(version, events[i].serde.inputs) # ""
    THEN "NotSupported"
    ELSE ""

\* Contract::load on the parsed JSON
load(serde_contract) ==
    LET version == IF serde_contract.version # <<>>
                   THEN serde_contract.version[1]
                   ELSE AbiVersion(serde_contract.abi_version[1], 0)
        header == IF version.major = 1 /\ serde_contract.set_time
                  THEN Append(serde_contract.header, Param("time", TTime))
                  ELSE serde_contract.header
        functions == serde_contract.functions
        events == serde_contract.events
        data == [i \in 1..Len(serde_contract.data) |->
                    serde_contract.data[i].value]
    IN IF serde_contract.version = <<>> /\ serde_contract.abi_version = <<>>
       THEN LoadErr("InvalidVersion")
       ELSE IF ~version_is_supported(version) THEN LoadErr("InvalidVersion")
       ELSE IF version.major = 1 /\ Len(serde_contract.header) # 0
       THEN LoadErr("InvalidData")
       ELSE IF serde_contract.fields # <<>> /\ VerLT(version, ABI_VERSION_2_1)
       THEN LoadErr("InvalidData")
       ELSE IF functions_support(version, functions) # ""
       THEN LoadErr("NotSupported")
       ELSE IF events_support(version, events) # ""
       THEN LoadErr("NotSupported")
       ELSE IF check_params_support(version, data) # ""
       THEN LoadErr("NotSupported")
       ELSE [err |-> "",
             contract |->
               [abi_version |-> version,
                data |-> by_name(
                    [i \in 1..Len(serde_contract.data) |->
                        [name |-> serde_contract.data[i].value.name,
                         value |-> serde_contract.data[i].value,
                         key |-> serde_contract.data[i].key]]),
                header |-> header,
                functions |-> by_name(
                    [i \in 1..Len(functions) |->
                        from_serde(version, functions[i].serde, header,
                                   functions[i].hash)]),
                events |-> by_name(
                    [i \in 1..Len(events) |->
                        event_from_serde(version, events[i].serde,
                                         events[i].hash)]),
                fields |-> [i \in 1..Len(serde_contract.fields) |->
                              Param(serde_contract.fields[i].name,
                                    serde_contract.fields[i].kind)],
                init_fields |-> {serde_contract.fields[i].name :
                                   i \in {i \in 1..Len(serde_contract.fields) :
                                            serde_contract.fields[i].init}}]]


\* Contract::DATA_MAP_KEYLEN
DATA_MAP_KEYLEN == 64

\* a data map that every version supports
data_map_supported_in_every_version(abi_version) == TRUE

\* Contract::data_map_supported_in_version
data_map_supported_in_version(abi_version) ==
    VerLT(abi_version, ABI_VERSION_2_4)

\* Contract::check_data_map_support: "" or the error
check_data_map_support(contract) ==
    IF ~data_map_supported_in_version(contract.abi_version)
    THEN "NotSupported"
    ELSE ""

\* SliceData::reference_opt(0): <<>> or <<the cell>>
reference_opt(slice) ==
    IF has_reference(slice, 0) THEN <<slice_reference(slice, 0)>> ELSE <<>>

\* HashmapE::with_hashmap(bit_len, root): the entries of the dictionary; a
\* root that holds no dictionary of this key length does not parse
with_hashmap(bit_len, root) ==
    IF root = <<>> THEN Ok({})
    ELSE IF root[1].dict = <<>> \/ root[1].dict[1] # bit_len
    THEN Err("DictionaryError")
    ELSE Ok(root[1].dict[2])

\* HashmapE::set_builder: the value is kept in the leaf beside the label of
\* its key, and has to fit there
set_builder(map, key, builder) ==
    IF MAX_HASH_MAP_INFO_ABOUT_KEY + BLen(key) + bits_used(builder)
         > bits_capacity
    THEN Err("CellOverflow")
    ELSE Ok({e \in map : e.key # key} \cup {[key |-> key, leaf |-> builder]})

\* self.data.get(&token.name)
data_get(contract, name) ==
    IF \E item \in contract.data : item.name = name
    THEN Ok(CHOOSE item \in contract.data : item.name = name)
    ELSE Err("InvalidData")

RECURSIVE update_data_loop(_, _, _)
\* for token in tokens
update_data_loop(contract, map, tokens) ==
    IF tokens = <<>> THEN Ok(map)
    ELSE AndThen(pack_into_chain(tokens[1].value, contract.abi_version),
           LAMBDA builder :
         AndThen(data_get(contract, tokens[1].name), LAMBDA item :
         AndThen(set_builder(map, BOfNat(item.val.key, DATA_MAP_KEYLEN),
                             builder.val),
           LAMBDA next : update_data_loop(contract, next.val, Tail(tokens)))))

\* update_data that starts from an empty map whatever the data holds
update_data_from_empty(contract, data, tokens) ==
    IF check_data_map_support(contract) # ""
    THEN Err(check_data_map_support(contract))
    ELSE AndThen(update_data_loop(contract, {}, tokens), LAMBDA next :
           Ok(write_hashmap(BuilderNew, DATA_MAP_KEYLEN, next.val)))


\* Changes initial values for public contract variables
update_data(contract, data, tokens) ==
    IF check_data_map_support(contract) # ""
    THEN Err(check_data_map_support(contract))
    ELSE AndThen(with_hashmap(DATA_MAP_KEYLEN, reference_opt(data)),
           LAMBDA map :
         AndThen(update_data_loop(contract, map.val, tokens),
           LAMBDA next :
             Ok(write_hashmap(BuilderNew, DATA_MAP_KEYLEN, next.val))))

RECURSIVE decode_data_loop(_, _, _, _, _)
\* for (_, item) in &self.data, in the order the map is walked
decode_data_loop(contract, map, items, allow_partial, tokens) ==
    IF items = <<>> THEN Ok(tokens)
    ELSE IF \A e \in map : e.key # BOfNat(items[1].key, DATA_MAP_KEYLEN)
    THEN decode_data_loop(contract, map, Tail(items), allow_partial, tokens)
    ELSE Try(decode_params(<<items[1].value>>,
               SliceOf((CHOOSE e \in map :
                          e.key = BOfNat(items[1].key, DATA_MAP_KEYLEN)).leaf),
               contract.abi_version, allow_partial),
             Err,
             LAMBDA got : decode_data_loop(contract, map, Tail(items),
                             allow_partial, tokens \o got.value))

\* Decode initial values of public contract variables.  items: the data
\* items in the order the HashMap gives them
decode_data(contract, data, allow_partial, items) ==
    IF check_data_map_support(contract) # ""
    THEN Err(check_data_map_support(contract))
    ELSE AndThen(with_hashmap(DATA_MAP_KEYLEN, reference_opt(data)),
           LAMBDA map :
             decode_data_loop(contract, map.val, items, allow_partial, <<>>))

\* the length of a public key, in bytes
ED25519_PUBLIC_KEY_LENGTH == 32

\* Gets public key from contract data: <<>>, or <<the 32 bytes of the value
\* at key 0>>; a value of another number of whole bytes does not convert
get_pubkey(data) ==
    AndThen(with_hashmap(DATA_MAP_KEYLEN, reference_opt(data)), LAMBDA map :
      IF \A e \in map.val : e.key # BOfNat(0, DATA_MAP_KEYLEN) THEN Ok(<<>>)
      ELSE With((CHOOSE e \in map.val :
                    e.key = BOfNat(0, DATA_MAP_KEYLEN)).leaf.bits,
             LAMBDA bits :
               IF BytesLen(bits) # ED25519_PUBLIC_KEY_LENGTH
               THEN Err("TryFromSliceError")
               ELSE Ok(<<BTake(bits, 8 * ED25519_PUBLIC_KEY_LENGTH)>>)))

\* Sets public key into contract data
insert_pubkey(data, pubkey) ==
    AndThen(with_hashmap(DATA_MAP_KEYLEN, reference_opt(data)), LAMBDA map :
    AndThen(set_builder(map.val, BOfNat(0, DATA_MAP_KEYLEN),
                        MkCell(pubkey, <<>>)),
      LAMBDA next : Ok(write_hashmap(BuilderNew, DATA_MAP_KEYLEN, next.val))))


RECURSIVE default_value(_)
\* TokenValue::default_value
default_value(param_type) ==
    CASE param_type.tag = "uint" -> VUint(param_type.size, 0)
      [] param_type.tag = "int" -> VInt(param_type.size, 0)
      [] param_type.tag = "varuint" -> VVarUint(param_type.size, 0)
      [] param_type.tag = "varint" -> VVarInt(param_type.size, 0)
      [] param_type.tag = "bool" -> VBool(FALSE)
      [] param_type.tag = "array" -> VArray(param_type.sub[1], <<>>)
      [] param_type.tag = "fixedarray" ->
            VFixedArray(param_type.sub[1],
                        [i \in 1..param_type.size |->
                            default_value(param_type.sub[1])])
      [] param_type.tag = "cell" -> VCell(EmptyCell)
      [] param_type.tag = "map" ->
            VMap(param_type.sub[1], param_type.sub[2], {})
      [] param_type.tag = "address" -> VAddress(AddrNone)
      [] param_type.tag = "bytes" -> VBytes(<<>>)
      [] param_type.tag = "fixedbytes" ->
            VFixedBytes(Run(0, 8 * param_type.size))
      [] param_type.tag = "string" -> VString(<<>>)
      [] param_type.tag = "gram" -> VToken(0)
      [] param_type.tag = "time" -> VTime(Run(0, 64))
      [] param_type.tag = "expire" -> VExpire(Run(0, 32))
      [] param_type.tag = "pubkey" -> VPublicKey(<<>>)
      [] param_type.tag = "ref" -> VRef(default_value(param_type.sub[1]))
      [] param_type.tag = "tuple" ->
            VTuple([i \in 1..Len(param_type.sub) |->
                      Token(param_type.sub[i].name,
                            default_value(param_type.sub[i].kind))])
      [] param_type.tag = "optional" -> VOptional(param_type.sub[1], <<>>)

\* init fields that every version supports
init_fields_supported_in_every_version(abi_version) == TRUE

\* Contract::init_fields_supported_in_version
init_fields_supported_in_version(abi_version) ==
    VerGE(abi_version, ABI_VERSION_2_4)

\* Contract::check_init_fields_support: "" or the error
check_init_fields_support(contract) ==
    IF ~init_fields_supported_in_version(contract.abi_version)
    THEN "NotSupported"
    ELSE ""

RECURSIVE storage_tokens(_, _, _, _)
\* for param in &self.fields.  init_fields: the entries of the HashMap that
\* were not removed so far, as a list of tokens of distinct names
storage_tokens(contract, fields, init_fields, tokens) ==
    IF fields = <<>> THEN Ok(tokens)
    ELSE With(SelectSeq(init_fields, LAMBDA t : t.name = fields[1].name),
           LAMBDA token :
           IF fields[1].name \in contract.init_fields
           THEN IF token = <<>> THEN Err("InvalidInputData")
                ELSE storage_tokens(contract, Tail(fields),
                         SelectSeq(init_fields,
                                   LAMBDA t : t.name # fields[1].name),
                         Append(tokens, token[1]))
           ELSE IF token # <<>> THEN Err("InvalidInputData")
                ELSE storage_tokens(contract, Tail(fields), init_fields,
                         Append(tokens,
                                Token(fields[1].name,
                                      default_value(fields[1].kind)))))

\* Encode account storage fields
encode_storage_fields(contract, init_fields) ==
    IF check_init_fields_support(contract) # ""
    THEN Err(check_init_fields_support(contract))
    ELSE AndThen(storage_tokens(contract, contract.fields, init_fields, <<>>),
           LAMBDA tokens :
             pack_values_into_chain(tokens.val, <<>>, contract.abi_version))

\* Decode account storage fields
decode_storage_fields(contract, data, allow_partial) ==
    decode_params(contract.fields, data, contract.abi_version, allow_partial)


\* ------------------------------------------------------------------------
\* The state machine
\* ------------------------------------------------------------------------

VARIABLES
    abi_version,    \* the ABI version the codec works in
    tokens,         \* the tokens handed to the serializer
    chain,          \* the cell chain to decode and where it came from
    decoded,        \* what decode_params returned for the chain
    contract,       \* Contract::load's result
    schema,         \* the schema it was loaded from
    support,        \* the last is_supported query and its answer
    call,           \* create_unsigned_call's arguments and result
    body,           \* the completed body: fill_sign's or encode_input's
    read,           \* what a reader of the body, chain or data returned
    json,           \* the parameters and the JSON value given to the tokenizer
    tokenized,      \* what the tokenizer returned for them
    data            \* update_data's arguments and result

vars == <<abi_version, tokens, chain, decoded, contract, schema, support,
          call, body, read, json, tokenized, data>>

None == [kind |-> "none"]

\* ---- bounds and value pools ----

\* the most top-level parameters of a token list
MaxParams == 2

pname(i) == "p" \o ToString(i)

Cell0 == MkCell(Run(1, 3), <<>>)
Addr1 == AddrStd(0, Run(1, 256))
Addr2 == AddrStd(-1, BCat(Run(0, 255), Run(1, 1)))

\* (cell, cell, cell)
T3C == VTuple(<<Token("x", VCell(Cell0)), Token("y", VCell(EmptyCell)),
                Token("z", VCell(Cell0))>>)
\* (uint256, uint256, uint256)
T3U == VTuple(<<Token("x", VUint(256, 1)), Token("y", VUint(256, 2)),
                Token("z", VUint(256, 3))>>)
\* (cell, cell, cell, uint8[])
TCA == VTuple(<<Token("x", VCell(Cell0)), Token("y", VCell(EmptyCell)),
                Token("z", VCell(Cell0)),
                Token("w", VArray(TUint(8), <<>>))>>)

\* (uint256, cell, cell, cell, cell)
TUC == VTuple(<<Token("x", VUint(256, 1)), Token("y", VCell(Cell0)),
                Token("z", VCell(EmptyCell)), Token("w", VCell(Cell0)),
                Token("v", VCell(EmptyCell))>>)
\* (cell, uint8)
TCU == VTuple(<<Token("x", VCell(Cell0)), Token("y", VUint(8, 9))>>)

PoolValues ==
    <<VUint(8, 5), VCell(Cell0), T3C, T3U, VAddress(Addr1), TCA, TUC, TCU,
      VArray(TUint(8), <<VUint(8, 1), VUint(8, 2)>>),
      VOptional(TUint(8), <<VUint(8, 7)>>)>>

\* ---- the codec ----

InitCodec ==
    /\ abi_version \in SupportedVersions
    /\ tokens = <<>>
    /\ chain = None
    /\ decoded = None
    /\ contract = None /\ schema = None /\ support = None
    /\ call = None /\ body = None /\ read = None
    /\ json = None /\ tokenized = None /\ data = None

\* the caller adds one more token to the list to serialize
AddToken(value) ==
    /\ chain = None
    /\ Len(tokens) < MaxParams
    /\ tokens' = Append(tokens, Token(pname(Len(tokens) + 1), value))
    /\ UNCHANGED <<json, tokenized, data,
                   abi_version, chain, decoded, contract, schema, support,
                   call, body, read>>

\* TokenValue::pack_values_into_chain(tokens, vec![], abi_version); values
\* and packed are kept beside the result: the serialized values and the
\* builders of the chain before they are linked
Encode ==
    /\ chain = None
    /\ tokens # <<>>
    /\ chain' = With(write_tuple(tokens, abi_version),
                  LAMBDA values :
                    [kind |-> "encoder",
                     values |-> values.val,
                     packed |-> AndThen(values,
                                  LAMBDA v : pack_cells(v.val, abi_version)).val,
                     res |-> pack_values_into_chain(tokens, <<>>,
                                                    abi_version)])
    /\ UNCHANGED <<json, tokenized, data,
                   abi_version, tokens, decoded, contract, schema, support,
                   call, body, read>>

RECURSIVE join_values(_)
\* the builder that holds the values one after another
join_values(values) ==
    IF Len(values) = 1 THEN values[1]
    ELSE append_value(values[1], join_values(Tail(values)))

\* the chains of two cells that hold the values: the first k in the head
\* cell, the others in its continuation
foreign_chains(values) ==
    IF values.err # "" THEN {}
    ELSE {[kind |-> "foreign",
           values |-> values.val,
           packed |-> cells,
           res |-> Ok(link_chain(cells))] :
          cells \in {cells \in
                       {<<join_values(SubSeq(values.val, 1, k)),
                          join_values(SubSeq(values.val, k + 1,
                                             Len(values.val)))>>
                          : k \in 1..(Len(values.val) - 1)} :
                      /\ bits_used(cells[1].data) <= bits_capacity
                      /\ references_used(cells[1].data) < references_capacity
                      /\ bits_used(cells[2].data) <= bits_capacity
                      /\ references_used(cells[2].data)
                            <= references_capacity}}

\* a chain of two cells from another encoder arrives: the first k values in
\* the head cell, the others in its continuation
Receive ==
    /\ chain = None
    /\ tokens # <<>>
    /\ \E foreign \in foreign_chains(write_tuple(tokens, abi_version)) :
          chain' = foreign
    /\ UNCHANGED <<json, tokenized, data,
                   abi_version, tokens, decoded, contract, schema, support,
                   call, body, read>>

\* the chain of one cell that holds the values one after another, when
\* their data fits in a cell
joined_chains(values) ==
    IF values.err # "" THEN {}
    ELSE {[kind |-> "joined",
           values |-> values.val,
           packed |-> cells,
           res |-> Ok(link_chain(cells))] :
          cells \in {cells \in {<<join_values(values.val)>>} :
                      /\ bits_used(cells[1].data) <= bits_capacity
                      /\ references_used(cells[1].data)
                            <= references_capacity}}

\* a chain from another encoder arrives that holds all the values in one
\* cell
ReceiveJoined ==
    /\ chain = None
    /\ tokens # <<>>
    /\ \E joined \in joined_chains(write_tuple(tokens, abi_version)) :
          chain' = joined
    /\ UNCHANGED <<json, tokenized, data,
                   abi_version, tokens, decoded, contract, schema, support,
                   call, body, read>>

\* what follows the values in a chain that holds more than them: one bit,
\* or one reference
Trailing == <<MkCell(Run(1, 1), <<>>), MkCell(<<>>, <<Cell0>>)>>

\* the builders of a chain and the same with more data after the last value
extend_last(packed_cells, extra) ==
    [packed_cells EXCEPT ![Len(packed_cells)] =
        [@ EXCEPT !.data = append_builder(@, extra)]]

\* the chains that hold the values of the tokens, as the serializer packs
\* them, and more data after the last of them; for no tokens, a cell that
\* holds that data alone
trailing_chains(packed) ==
    IF packed.err # "" THEN {}
    ELSE {[kind |-> "trailing",
           values |-> <<>>,
           packed |-> extend_last(packed.val, Trailing[i]),
           res |-> Ok(link_chain(extend_last(packed.val, Trailing[i]))),
           clean |-> link_chain(packed.val)] :
          i \in {i \in 1..Len(Trailing) :
                   can_append(packed.val[Len(packed.val)].data, Trailing[i])}}

\* a chain arrives that holds more than the values of the tokens
ReceiveTrailing ==
    /\ chain = None
    /\ \E longer \in trailing_chains(
              IF tokens = <<>> THEN Ok(<<SerializedFrom(BuilderNew)>>)
              ELSE AndThen(write_tuple(tokens, abi_version),
                     LAMBDA values : pack_cells(values.val, abi_version))) :
          chain' = longer
    /\ UNCHANGED <<json, tokenized, data,
                   abi_version, tokens, decoded, contract, schema, support,
                   call, body, read>>

\* TokenValue::decode_params(params, chain, abi_version, true)
DecodePartial ==
    /\ chain # None
    /\ chain.res.err = ""
    /\ read = None
    /\ read' = [kind |-> "partial",
                res |-> decode_params(TokensParams(tokens),
                                      SliceOf(chain.res.val), abi_version,
                                      TRUE)]
    /\ UNCHANGED <<json, tokenized, data,
                   abi_version, tokens, chain, decoded, contract, schema,
                   support, call, body>>

\* TokenValue::decode_params(params, chain, abi_version, false)
Decode ==
    /\ chain # None
    /\ chain.res.err = ""
    /\ decoded = None
    /\ decoded' = decode_params(TokensParams(tokens), SliceOf(chain.res.val),
                                abi_version, FALSE)
    /\ UNCHANGED <<json, tokenized, data,
                   abi_version, tokens, chain, contract, schema, support,
                   call, body, read>>

NextCodec ==
    \/ \E i \in 1..Len(PoolValues) : AddToken(PoolValues[i])
    \/ Encode
    \/ Receive
    \/ ReceiveJoined
    \/ ReceiveTrailing
    \/ Decode
    \/ DecodePartial

SpecCodec == InitCodec /\ [][NextCodec]_vars


\* ---- arrays, fixed arrays and maps ----

\* (uint256, uint256, uint256, uint256): 1024 bits
T4U == VTuple(<<Token("x", VUint(256, 1)), Token("y", VUint(256, 2)),
                Token("z", VUint(256, 3)), Token("w", VUint(256, 4))>>)

\* the items of the containers: three values of each item type
ItemValues ==
    <<<<VUint(8, 1), VUint(8, 2), VUint(8, 3)>>,
      <<VCell(Cell0), VCell(EmptyCell), VCell(Cell0)>>,
      <<T4U, T4U, T4U>>>>

\* the array, the fixed array and the map (uint8 keys) of the first n of
\* the items
Containers(items, n) ==
    <<VArray(get_param_type(items[1]), SubSeq(items, 1, n)),
      VFixedArray(get_param_type(items[1]), SubSeq(items, 1, n)),
      VMap(TUint(8), get_param_type(items[1]),
           {[val |-> items[i], key |-> ToString(i)] : i \in 1..n})>>

\* the most items of a container
MaxItems == 2

InitDict ==
    /\ abi_version \in SupportedVersions
    /\ \E i \in 1..Len(ItemValues), n \in 0..MaxItems, c \in 1..3 :
          tokens = <<Token(pname(1), Containers(ItemValues[i], n)[c])>>
    /\ chain = None
    /\ decoded = None
    /\ contract = None /\ schema = None /\ support = None
    /\ call = None /\ body = None /\ read = None
    /\ json = None /\ tokenized = None /\ data = None

NextDict ==
    \/ Encode
    \/ Decode

SpecDict == InitDict /\ [][NextDict]_vars


\* ---- calls of the functions of a loaded contract ----

\* the header lists of the schemas: none, the usual three, one address
Headers ==
    <<<<>>,
      <<Param("pubkey", TPublicKey), Param("time", TTime),
        Param("expire", TExpire)>>,
      <<Param("time", TTime), Param("dest", TAddress)>>>>

\* the input tokens of the functions f1, f2, ... of the schemas
CallInputs ==
    <<<<>>,
      <<Token("a", VUint(8, 5))>>,
      <<Token("a", VAddress(Addr2))>>,
      <<Token("a", VCell(Cell0)), Token("b", VCell(EmptyCell)),
        Token("c", VCell(Cell0)), Token("d", VCell(EmptyCell))>>,
      <<Token("a", T3U)>>>>

fname(k) == "f" \o ToString(k)

\* the first four digest bytes of the signature of function k: distinct
\* words, with the high bit set for the even ones
Digest(k) == BCat(Run(k % 2, 1), BOfNat(1000 + k, 31))

CallSchema(version, header, set_time) ==
    SerdeContract(<<version>>, <<>>, set_time, header,
        [k \in 1..Len(CallInputs) |->
            [hash |-> Digest(k),
             serde |-> SerdeFunction(fname(k), TokensParams(CallInputs[k]),
                                     <<>>, <<>>)]],
        <<>>, <<>>, <<>>)

CallSchemas ==
    {CallSchema(v, Headers[h], t) :
        v \in SupportedVersions, h \in 1..Len(Headers), t \in BOOLEAN}

\* the header tokens a caller gives: none, or the time and the destination
HeaderTokens ==
    <<<<>>,
      <<Token("time", VTime(BOfNat(5, 64))), Token("dest", VAddress(Addr1))>>>>

Addresses == <<<<>>, <<Addr1>>, <<Addr2>>>>
Clock == <<BOfNat(77, 64)>>
Signature1 == BCat(Run(1, 100), Run(0, 412))
PublicKey1 == BCat(Run(0, 200), Run(1, 56))
Pairs == <<<<>>, <<[signature |-> Signature1, public |-> PublicKey1]>>>>
Signatures == <<<<>>, <<Signature1>>>>

\* the values of a pool
Range(pool) == {pool[i] : i \in 1..Len(pool)}

InitCall ==
    /\ schema \in CallSchemas
    /\ load(schema).err = ""
    /\ contract = load(schema).contract
    /\ abi_version = contract.abi_version
    /\ call = None /\ body = None /\ read = None
    /\ json = None /\ tokenized = None /\ data = None
    /\ tokens = <<>> /\ chain = None /\ decoded = None /\ support = None

TheFunction(name) == CHOOSE func \in contract.functions : func.name = name

\* the builders create_unsigned_call packs the values of a call into,
\* before they are linked
call_values(function, header, input, internal, reserve_sign, now) ==
    AndThen(call_cells(function, header, internal, reserve_sign, now),
      LAMBDA cells :
        AndThen(write_tuple(input, function.abi_version),
          LAMBDA values :
            pack_cells(cells.val \o values.val, function.abi_version)))

\* what a call was made with, beside what create_unsigned_call returned and
\* the number of cells it packed the values into
CallOf(k, header, internal, reserve_sign, address, now) ==
    With(TheFunction(fname(k)), LAMBDA function :
      [kind |-> "call", header |-> header, function |-> function,
       now |-> now, internal |-> internal,
       reserve_sign |-> reserve_sign, address |-> address, input |-> CallInputs[k],
       res |-> create_unsigned_call(function, header, CallInputs[k],
                                    internal, reserve_sign, address, now),
       ncells |-> Len(Try(call_values(function, header, CallInputs[k],
                                      internal, reserve_sign, now),
                          LAMBDA e : <<>>, LAMBDA packed : packed.val))])

\* Function::create_unsigned_call
CreateUnsignedCall(k, header, internal, reserve_sign, address, now) ==
    /\ call = None
    /\ call' = CallOf(k, header, internal, reserve_sign, address, now)
    /\ UNCHANGED <<json, tokenized, data,
                   abi_version, tokens, chain, decoded, contract, schema,
                   support, body, read>>

\* Function::fill_sign on the body create_unsigned_call returned
FillSign(signature, public_key) ==
    /\ call # None /\ call.res.err = ""
    /\ body = None
    /\ body' = [kind |-> "fill_sign", signature |-> signature,
                res |-> fill_sign(abi_version, signature, public_key,
                                  call.res.builder)]
    /\ UNCHANGED <<json, tokenized, data,
                   abi_version, tokens, chain, decoded, contract, schema,
                   support, call, read>>

\* Function::encode_input
EncodeInput(k, header, internal, pair, address, now) ==
    /\ call = None
    /\ call' = CallOf(k, header, internal, pair # <<>>, address, now)
    /\ body' = [kind |-> "encode_input",
                signature |-> IF pair # <<>> THEN <<pair[1].signature>>
                              ELSE <<>>,
                res |-> encode_input(TheFunction(fname(k)), header,
                                     CallInputs[k], internal, pair, address,
                                     now)]
    /\ UNCHANGED <<json, tokenized, data,
                   abi_version, tokens, chain, decoded, contract, schema,
                   support, read>>

\* Function::get_signature_data on the completed body
GetSignatureData(address) ==
    /\ body # None /\ body.res.err = ""
    /\ read = None
    /\ read' = [kind |-> "signature", address |-> address,
                res |-> get_signature_data(abi_version,
                                           SliceOf(body.res.val), address)]
    /\ UNCHANGED <<json, tokenized, data,
                   abi_version, tokens, chain, decoded, contract, schema,
                   support, call, body>>

\* Function::decode_header on the completed body
DecodeHeader ==
    /\ body # None /\ body.res.err = ""
    /\ read = None
    /\ read' = [kind |-> "header",
                res |-> decode_header(abi_version, SliceOf(body.res.val),
                                      contract.header, call.internal)]
    /\ UNCHANGED <<json, tokenized, data,
                   abi_version, tokens, chain, decoded, contract, schema,
                   support, call, body>>

\* Contract::decode_input on the completed body, allow_partial = false
DecodeInput ==
    /\ body # None /\ body.res.err = ""
    /\ read = None
    /\ \E message \in contract_decode_input(contract, SliceOf(body.res.val),
                                            call.internal, FALSE) :
          read' = [kind |-> "input", res |-> message]
    /\ UNCHANGED <<json, tokenized, data,
                   abi_version, tokens, chain, decoded, contract, schema,
                   support, call, body>>

NextCall ==
    \/ \E k \in 1..Len(CallInputs), header \in Range(HeaderTokens),
          internal \in BOOLEAN, reserve_sign \in BOOLEAN,
          address \in Range(Addresses), now \in Range(Clock) :
            CreateUnsignedCall(k, header, internal, reserve_sign, address, now)
    \/ \E signature \in Range(Signatures) :
            FillSign(signature, <<PublicKey1>>)
    \/ \E k \in 1..Len(CallInputs), header \in Range(HeaderTokens),
          internal \in BOOLEAN, pair \in Range(Pairs),
          address \in Range(Addresses), now \in Range(Clock) :
            EncodeInput(k, header, internal, pair, address, now)
    \/ \E address \in Range(Addresses) : GetSignatureData(address)
    \/ DecodeHeader
    \/ DecodeInput

SpecCall == InitCall /\ [][NextCall]_vars

\* ---- loading schemas and asking for the support of a type ----

\* the parameter types of the schemas: every kind the support table names,
\* alone and inside another type
LoadTypes ==
    <<TUint(8), TBool, TCell, TAddress, TTime, TExpire, TPublicKey, TString,
      TOptional(TUint(8)), TVarInt(16), TVarUint(16), TRef(TUint(8)),
      TArray(TString), TFixedArray(TTime, 2), TMap(TUint(8), TVarUint(16)),
      TTuple(<<Param("x", TString)>>), TOptional(TRef(TBool)),
      TTuple(<<Param("x", TUint(8)), Param("y", TArray(TExpire))>>)>>

\* where the parameter stands in the schema
Slots == <<"input", "output", "event", "data", "header", "field">>

\* an explicit id of the schema
ExplicitId == BCat(Run(1, 1), BOfNat(77, 31))

\* a schema with one function, and one parameter p of the type in the slot
LoadSchema(version, slot, t, id, k) ==
    SerdeContract(<<version>>, <<>>, FALSE,
        IF slot = "header" THEN <<Param("p", t)>> ELSE <<>>,
        <<[hash |-> Digest(k),
           serde |-> SerdeFunction("f",
                        IF slot = "input" THEN <<Param("p", t)>> ELSE <<>>,
                        IF slot = "output" THEN <<Param("p", t)>> ELSE <<>>,
                        id)]>>,
        IF slot = "event"
        THEN <<[hash |-> Digest(k),
                serde |-> [name |-> "e", id |-> id,
                           inputs |-> <<Param("p", t)>>]]>>
        ELSE <<>>,
        IF slot = "data" THEN <<[value |-> Param("p", t), key |-> 1]>>
        ELSE <<>>,
        IF slot = "field" THEN <<[name |-> "p", kind |-> t, init |-> TRUE]>>
        ELSE <<>>)

LoadSchemas ==
    {LoadSchema(v, Slots[s], LoadTypes[t], id, k) :
        v \in VersionCandidates, s \in 1..Len(Slots),
        t \in 1..Len(LoadTypes), id \in {<<>>, <<ExplicitId>>}, k \in 1..2}

\* the numbers a schema gives as its legacy "ABI version"
LegacyVersions == <<0, 1, 2, 3>>

\* schemas without a "version": with the legacy "ABI version", or with none
VersionlessSchemas ==
    {SerdeContract(<<>>, legacy, FALSE, <<>>,
        <<[hash |-> Digest(k),
           serde |-> SerdeFunction("f", <<Param("p", TUint(8))>>, <<>>,
                                   <<>>)]>>,
        <<>>, <<>>, <<>>) :
        legacy \in {<<>>} \cup {<<LegacyVersions[i]>> :
                                  i \in 1..Len(LegacyVersions)},
        k \in 1..2}

\* the version load takes from the schema; where it gives none, the least
\* version stands for the one is_supported is asked about
SchemaVersion(serde_contract) ==
    IF serde_contract.version # <<>> THEN serde_contract.version[1]
    ELSE IF serde_contract.abi_version # <<>>
    THEN AbiVersion(serde_contract.abi_version[1], 0)
    ELSE MIN_SUPPORTED_VERSION

InitLoad ==
    /\ schema \in LoadSchemas \cup VersionlessSchemas
    /\ abi_version = SchemaVersion(schema)
    /\ contract = None /\ support = None
    /\ call = None /\ body = None /\ read = None
    /\ json = None /\ tokenized = None /\ data = None
    /\ tokens = <<>> /\ chain = None /\ decoded = None

\* Contract::load
Load ==
    /\ contract = None
    /\ contract' = [kind |-> "load", res |-> load(schema)]
    /\ UNCHANGED <<json, tokenized, data,
                   abi_version, tokens, chain, decoded, schema, support,
                   call, body, read>>

\* ParamType::is_supported
CheckSupport(t) ==
    /\ support' = [kind |-> "is_supported", version |-> abi_version,
                   res |-> is_supported(t, abi_version),
                   type |-> t]
    /\ UNCHANGED <<json, tokenized, data,
                   abi_version, tokens, chain, decoded, contract, schema,
                   call, body, read>>

NextLoad ==
    \/ Load
    \/ \E t \in Range(LoadTypes) : CheckSupport(t)

SpecLoad == InitLoad /\ [][NextLoad]_vars

\* ------------------------------------------------------------------------
\* Tokenizer (src/token/tokenizer.rs)
\* ------------------------------------------------------------------------

\* serde_json::Value.  A string is the sequence of its characters, an array
\* the sequence of its items, an object the sequence of its members (their
\* keys distinct); a number is the integer its literal writes.
JNull == [v |-> <<>>, j |-> "null"]
JBool(b) == [v |-> b, j |-> "bool"]
JNumber(number) == [v |-> number, j |-> "number"]
JString(chars) == [v |-> chars, j |-> "string"]
JArray(items) == [v |-> items, j |-> "array"]
JObject(members) == [v |-> members, j |-> "object"]
Member(key, value) == [value |-> value, key |-> key]

\* BigInt and BigUint: a sign and a magnitude, the magnitude in binary without
\* leading zeros; zero has no sign
Big(neg, mag) == [neg |-> neg /\ mag # <<>>, mag |-> mag]
BigZero == Big(FALSE, <<>>)
\* BigInt::bits, BigUint::bits
bits(number) == BLen(number.mag)
\* -number
negated(number) == Big(~number.neg, number.mag)

\* number + BigInt::from(1) of a negative number
increased(number) ==
    LET mag == number.mag
        last == mag[Len(mag)]
        ahead == BTake(mag, BLen(mag) - last[2] - 1)
    IN IF last[1] = 1
       THEN Big(TRUE, BStrip(BCat(BTake(mag, BLen(mag) - 1), Run(0, 1))))
       ELSE Big(TRUE, BStrip(BCat(ahead, BCat(Run(0, 1), Run(1, last[2])))))

\* Value::as_i64: the number when its literal is an integer of the i64 range
as_i64(value) ==
    IF /\ value.j = "number"
       /\ \/ bits(value.v) <= 63
          \/ value.v = Big(TRUE, BCat(Run(1, 1), Run(0, 63)))
    THEN Ok(value.v) ELSE Err("None")

\* Value::as_u64: the number when its literal is an integer of the u64 range
as_u64(value) ==
    IF value.j = "number" /\ ~value.v.neg /\ bits(value.v) <= 64
    THEN Ok(value.v) ELSE Err("None")

\* Value::as_str
as_str(value) == IF value.j = "string" THEN Ok(value.v) ELSE Err("None")

\* the digits of the radixes in use
Digits ==
    <<"0", "1", "2", "3", "4", "5", "6", "7", "8", "9",
      "a", "b", "c", "d", "e", "f">>
UpperDigits == <<"A", "B", "C", "D", "E", "F">>

\* char::to_digit: the digit a character writes, 36 for none
to_digit(c) ==
    IF \E i \in 1..Len(Digits) : Digits[i] = c
    THEN (CHOOSE i \in 1..Len(Digits) : Digits[i] = c) - 1
    ELSE IF \E i \in 1..Len(UpperDigits) : UpperDigits[i] = c
    THEN (CHOOSE i \in 1..Len(UpperDigits) : UpperDigits[i] = c) + 9
    ELSE 36

RECURSIVE decimal_value(_, _)
\* the number a string of decimal digits writes
decimal_value(chars, acc) ==
    IF chars = <<>> THEN acc
    ELSE decimal_value(Tail(chars), acc * 10 + to_digit(chars[1]))

RECURSIVE hex_value(_)
\* the bits a string of hex digits writes
hex_value(chars) ==
    IF chars = <<>> THEN <<>>
    ELSE BCat(BOfNat(to_digit(chars[1]), 4), hex_value(Tail(chars)))

\* BigUint::parse_bytes(buf, radix): one leading + is allowed, then digits of
\* the radix, one at least
biguint_parse_bytes(buf, radix) ==
    LET chars == IF buf # <<>> /\ buf[1] = "+" THEN Tail(buf) ELSE buf
    IN IF chars = <<>> \/ \E i \in 1..Len(chars) : to_digit(chars[i]) >= radix
       THEN Err("None")
       ELSE IF radix = 16 THEN Ok(Big(FALSE, BStrip(hex_value(chars))))
       ELSE Ok(Big(FALSE, NatBits(decimal_value(chars, 0))))

\* BigInt::parse_bytes(buf, radix): a leading - gives the sign
bigint_parse_bytes(buf, radix) ==
    IF buf # <<>> /\ buf[1] = "-"
    THEN IF Len(buf) > 1 /\ buf[2] = "+" THEN Err("None")
         ELSE AndThen(biguint_parse_bytes(Tail(buf), radix),
                LAMBDA number : Ok(negated(number.val)))
    ELSE biguint_parse_bytes(buf, radix)

\* str::starts_with
starts_with(chars, prefix) ==
    Len(chars) >= Len(prefix) /\ SubSeq(chars, 1, Len(prefix)) = prefix

\* Tries to read integer number from `Value`
tokenizer_read_int(value) ==
    IF as_i64(value).err = "" THEN as_i64(value)
    ELSE IF as_str(value).err = ""
    THEN Try(IF starts_with(value.v, <<"-", "0", "x">>)
             THEN AndThen(bigint_parse_bytes(SubSeq(value.v, 4, Len(value.v)), 16),
                    LAMBDA number : Ok(negated(number.val)))
             ELSE IF starts_with(value.v, <<"0", "x">>)
             THEN bigint_parse_bytes(SubSeq(value.v, 3, Len(value.v)), 16)
             ELSE bigint_parse_bytes(value.v, 10),
             LAMBDA none : Err("InvalidParameterValue"),
             LAMBDA number : number)
    ELSE Err("WrongDataFormat")

\* Tries to read integer number from `Value`
tokenizer_read_uint(value) ==
    IF as_u64(value).err = "" THEN as_u64(value)
    ELSE IF as_str(value).err = ""
    THEN Try(IF starts_with(value.v, <<"0", "x">>)
             THEN biguint_parse_bytes(SubSeq(value.v, 3, Len(value.v)), 16)
             ELSE biguint_parse_bytes(value.v, 10),
             LAMBDA none : Err("InvalidParameterValue"),
             LAMBDA number : number)
    ELSE Err("WrongDataFormat")

\* Checks if given number can be fit into given bits count
check_int_size(number, size) ==
    IF number.neg /\ bits(number) # bits(increased(number))
    THEN bits(number) <= size
    ELSE bits(number) < size

\* Checks if given number can be fit into given bits count
check_uint_size(number, size) == bits(number) < size

\* Tries to parse a value as unsigned integer.
tokenize_uint(size, value) ==
    AndThen(tokenizer_read_uint(value),
      LAMBDA number : IF ~check_uint_size(number.val, size + 1)
                      THEN Err("InvalidParameterValue")
                      ELSE Ok(VUint(size, number.val)))

\* Tries to parse a value as signed integer.
tokenize_int(size, value) ==
    AndThen(tokenizer_read_int(value),
      LAMBDA number : IF ~check_int_size(number.val, size)
                      THEN Err("InvalidParameterValue")
                      ELSE Ok(VInt(size, number.val)))

tokenize_varuint(size, value) ==
    AndThen(tokenizer_read_uint(value),
      LAMBDA number : IF ~check_uint_size(number.val, (size - 1) * 8)
                      THEN Err("InvalidParameterValue")
                      ELSE Ok(VVarUint(size, number.val)))

tokenize_varint(size, value) ==
    AndThen(tokenizer_read_int(value),
      LAMBDA number : IF ~check_int_size(number.val, (size - 1) * 8)
                      THEN Err("InvalidParameterValue")
                      ELSE Ok(VVarInt(size, number.val)))

\* Tries to parse a value as a bool.
tokenize_bool(value) ==
    IF value.j = "bool" THEN Ok(VBool(value.v))
    ELSE IF value.j = "string"
    THEN IF value.v = <<"t", "r", "u", "e">> THEN Ok(VBool(TRUE))
         ELSE IF value.v = <<"f", "a", "l", "s", "e">> THEN Ok(VBool(FALSE))
         ELSE Err("InvalidParameterValue")
    ELSE Err("WrongDataFormat")

\* hex::decode: the bytes an even number of hex digits writes
hex_decode(chars) ==
    IF Len(chars) % 2 = 1 \/ \E i \in 1..Len(chars) : to_digit(chars[i]) >= 16
    THEN Err("FromHexError")
    ELSE Ok(hex_value(chars))

tokenize_bytes(value, size) ==
    IF as_str(value).err # "" THEN Err("WrongDataFormat")
    ELSE Try(hex_decode(value.v),
             LAMBDA err : Err("InvalidParameterValue"),
             LAMBDA bytes :
               IF size = <<>> THEN Ok(VBytes(bytes.val))
               ELSE IF BytesLen(bytes.val) >= size[1]
               THEN Ok(VFixedBytes(BytesSub(bytes.val, 0, size[1])))
               ELSE Err("InvalidParameterLength"))

tokenize_string(value) ==
    IF as_str(value).err # "" THEN Err("WrongDataFormat")
    ELSE Ok(VString(value.v))

\* Map::get(&param.name).unwrap_or(&Value::Null)
get_or_null(map, name) ==
    IF \E i \in 1..Len(map) : map[i].key = name
    THEN map[CHOOSE i \in 1..Len(map) : map[i].key = name].value
    ELSE JNull

RECURSIVE tokenize_parameter(_, _), tokenize_params_loop(_, _, _), read_array_loop(_, _, _)

\* Tries to parse parameters from JSON values to tokens.
tokenize_all_params(params, values) ==
    IF values.j = "object" THEN tokenize_params_loop(params, values.v, <<>>)
    ELSE Err("InvalidInputData")

\* for param in params
tokenize_params_loop(params, map, done) ==
    IF params = <<>> THEN Ok(done)
    ELSE AndThen(tokenize_parameter(params[1].kind, get_or_null(map, params[1].name)),
           LAMBDA token_value :
             tokenize_params_loop(Tail(params), map,
                Append(done, Token(params[1].name, token_value.val))))

\* for value in array
read_array_loop(item_type, array, done) ==
    IF array = <<>> THEN Ok(done)
    ELSE AndThen(tokenize_parameter(item_type, array[1]),
           LAMBDA token_value :
             read_array_loop(item_type, Tail(array),
                             Append(done, token_value.val)))

\* Tries to read tokens array from `Value`
tokenizer_read_array(item_type, value) ==
    IF value.j = "array" THEN read_array_loop(item_type, value.v, <<>>)
    ELSE Err("WrongDataFormat")

\* Tries to parse a value as a vector of tokens of fixed size.
tokenize_fixed_array(item_type, size, value) ==
    AndThen(tokenizer_read_array(item_type, value),
      LAMBDA vec : IF Len(vec.val) = size
                   THEN Ok(VFixedArray(item_type, vec.val))
                   ELSE Err("InvalidParameterLength"))

\* Tries to parse a value as a vector of tokens.
tokenize_array(item_type, value) ==
    AndThen(tokenizer_read_array(item_type, value),
      LAMBDA vec : Ok(VArray(item_type, vec.val)))

\* Tries to parse a value as tuple.
tokenize_tuple(params, value) ==
    IF value.j # "object" THEN Err("WrongDataFormat")
    ELSE AndThen(tokenize_all_params(params, value),
           LAMBDA got : Ok(VTuple(got.val)))

tokenize_optional(inner_type, value) ==
    IF value.j = "null" THEN Ok(VOptional(inner_type, <<>>))
    ELSE AndThen(tokenize_parameter(inner_type, value),
           LAMBDA inner : Ok(VOptional(inner_type, <<inner.val>>)))

tokenize_ref(inner_type, value) ==
    AndThen(tokenize_parameter(inner_type, value),
      LAMBDA inner : Ok(VRef(inner.val)))

\* Tries to parse a JSON value as a token of given type: the types whose
\* values are written in JSON as numbers, strings of digits, booleans,
\* arrays and objects
tokenize_parameter(param, value) ==
    CASE param.tag = "uint" -> tokenize_uint(param.size, value)
      [] param.tag = "int" -> tokenize_int(param.size, value)
      [] param.tag = "varuint" -> tokenize_varuint(param.size, value)
      [] param.tag = "varint" -> tokenize_varint(param.size, value)
      [] param.tag = "bool" -> tokenize_bool(value)
      [] param.tag = "tuple" -> tokenize_tuple(param.sub, value)
      [] param.tag = "array" -> tokenize_array(param.sub[1], value)
      [] param.tag = "fixedarray" ->
            tokenize_fixed_array(param.sub[1], param.size, value)
      [] param.tag = "bytes" -> tokenize_bytes(value, <<>>)
      [] param.tag = "fixedbytes" -> tokenize_bytes(value, <<param.size>>)
      [] param.tag = "string" -> tokenize_string(value)
      [] param.tag = "optional" -> tokenize_optional(param.sub[1], value)
      [] param.tag = "ref" -> tokenize_ref(param.sub[1], value)

\* ---- the initial data of a contract ----

\* pairs of values of one type, to write into a data item
DataValues ==
    <<<<VUint(8, 5), VUint(8, 6)>>,
      <<VCell(Cell0), VCell(EmptyCell)>>,
      <<VAddress(Addr1), VAddress(Addr2)>>,
      <<T3C, T3C>>,
      <<VArray(TUint(8), <<>>), VArray(TUint(8), <<VUint(8, 1)>>)>>>>

\* a schema with the data items a (key 1) and b (key 2)
DataSchema(version, a, b) ==
    SerdeContract(<<version>>, <<>>, FALSE, <<>>, <<>>, <<>>,
        <<[value |-> Param("a", get_param_type(a)), key |-> 1],
          [value |-> Param("b", get_param_type(b)), key |-> 2]>>,
        <<>>)

DataSchemas ==
    {DataSchema(v, DataValues[a][1], DataValues[b][1]) :
        v \in SupportedVersions, a \in 1..Len(DataValues),
        b \in 1..Len(DataValues)}

\* the data cells a contract has before the update: none, and a map with the
\* public key at key 0
InitialData ==
    <<EmptyCell,
      write_hashmap(BuilderNew, DATA_MAP_KEYLEN,
                    {[key |-> BOfNat(0, DATA_MAP_KEYLEN),
                      leaf |-> MkCell(Run(0, 256), <<>>)]})>>

\* the token lists to write: values of the type of the item a, of b, and of
\* an item the contract does not declare
DataTokens(a, b) ==
    <<<<>>,
      <<Token("a", a[1])>>,
      <<Token("b", b[2])>>,
      <<Token("b", b[1]), Token("a", a[2])>>,
      <<Token("a", a[1]), Token("a", a[2])>>,
      <<Token("c", a[1])>>>>

\* the values of the type of a data item
ValuesOf(name) ==
    DataValues[CHOOSE i \in 1..Len(DataValues) :
        \E item \in contract.data :
            /\ item.name = name
            /\ item.value.kind = get_param_type(DataValues[i][1])]

\* the orders a HashMap of the data items is walked in
Walks ==
    {walk \in [1..Cardinality(contract.data) -> contract.data] :
        \A i, j \in 1..Cardinality(contract.data) :
            walk[i] = walk[j] => i = j}

InitData ==
    /\ schema \in DataSchemas
    /\ load(schema).err = ""
    /\ contract = load(schema).contract
    /\ abi_version = contract.abi_version
    /\ \E i \in 1..Len(InitialData) :
          data = [cell |-> InitialData[i], kind |-> "initial"]
    /\ call = None /\ body = None /\ read = None
    /\ json = None /\ tokenized = None
    /\ tokens = <<>> /\ chain = None /\ decoded = None /\ support = None

\* Contract::update_data on the data the contract has, not decoded so far
UpdateData ==
    /\ data.kind = "initial"
    /\ read = None
    /\ \E i \in 1..Len(DataTokens(ValuesOf("a"), ValuesOf("b"))) :
         With(DataTokens(ValuesOf("a"), ValuesOf("b"))[i], LAMBDA written :
         With(update_data(contract, SliceOf(data.cell), written), LAMBDA res :
           data' = [cell |-> IF res.err = "" THEN res.val ELSE data.cell,
                    kind |-> "update_data",
                    tokens |-> written,
                    res |-> res,
                    initial |-> data.cell]))
    /\ UNCHANGED <<json, tokenized, abi_version, tokens, chain, decoded,
                   contract, schema, support, call, body, read>>

\* Contract::decode_data on the data the contract has
DecodeData(allow_partial) ==
    /\ read = None
    /\ \E walk \in Walks :
          read' = [kind |-> "decode_data",
                   res |-> decode_data(contract, SliceOf(data.cell),
                                       allow_partial, walk)]
    /\ UNCHANGED <<json, tokenized, abi_version, tokens, chain, decoded,
                   contract, schema, support, call, body, data>>

NextData ==
    \/ UpdateData
    \/ \E allow_partial \in BOOLEAN : DecodeData(allow_partial)

SpecData == InitData /\ [][NextData]_vars

\* ---- the public key and the data items in one dictionary ----

\* a schema with the data items a (key 1) and b (at the key given)
KeySchema(version, a, b, key) ==
    SerdeContract(<<version>>, <<>>, FALSE, <<>>, <<>>, <<>>,
        <<[value |-> Param("a", get_param_type(a)), key |-> 1],
          [value |-> Param("b", get_param_type(b)), key |-> key]>>,
        <<>>)

\* b beside the public key, and b at the key of the public key
KeysOfB == <<2, 0>>

\* a of every type of DataValues, b of the type that follows it there
KeySchemas ==
    {KeySchema(v, DataValues[a][1], DataValues[(a % Len(DataValues)) + 1][1],
               KeysOfB[k]) :
        v \in SupportedVersions, a \in 1..Len(DataValues),
        k \in 1..Len(KeysOfB)}

PublicKeys == <<Run(0, 8 * ED25519_PUBLIC_KEY_LENGTH), Run(1, 8 * ED25519_PUBLIC_KEY_LENGTH)>>

InitKeys ==
    /\ schema \in KeySchemas
    /\ load(schema).err = ""
    /\ contract = load(schema).contract
    /\ abi_version = contract.abi_version
    /\ \E i \in 1..Len(InitialData) :
          data = [cell |-> InitialData[i], kind |-> "initial"]
    /\ call = None /\ body = None /\ read = None
    /\ json = None /\ tokenized = None
    /\ tokens = <<>> /\ chain = None /\ decoded = None /\ support = None

\* Contract::update_data on the data the contract has now
UpdateStored ==
    /\ \E i \in 1..Len(DataTokens(ValuesOf("a"), ValuesOf("b"))) :
         With(DataTokens(ValuesOf("a"), ValuesOf("b"))[i], LAMBDA written :
         With(update_data(contract, SliceOf(data.cell), written), LAMBDA res :
           data' = [cell |-> IF res.err = "" THEN res.val ELSE data.cell,
                    kind |-> "update_data",
                    tokens |-> written,
                    res |-> res,
                    initial |-> data.cell]))
    /\ read' = None
    /\ UNCHANGED <<json, tokenized, abi_version, tokens, chain, decoded,
                   contract, schema, support, call, body>>

\* Contract::insert_pubkey on the data the contract has now
InsertPubkey ==
    /\ \E i \in 1..Len(PublicKeys) :
         With(insert_pubkey(SliceOf(data.cell), PublicKeys[i]), LAMBDA res :
           data' = [cell |-> IF res.err = "" THEN res.val ELSE data.cell,
                    kind |-> "insert_pubkey",
                    pubkey |-> PublicKeys[i],
                    res |-> res,
                    initial |-> data.cell])
    /\ read' = None
    /\ UNCHANGED <<json, tokenized, abi_version, tokens, chain, decoded,
                   contract, schema, support, call, body>>

\* Contract::get_pubkey on the data the contract has now
GetPubkey ==
    /\ read = None
    /\ read' = [kind |-> "get_pubkey", res |-> get_pubkey(SliceOf(data.cell))]
    /\ UNCHANGED <<json, tokenized, abi_version, tokens, chain, decoded,
                   contract, schema, support, call, body, data>>

NextKeys == UpdateStored \/ InsertPubkey \/ GetPubkey

SpecKeys == InitKeys /\ [][NextKeys]_vars

\* ---- the storage fields of a contract ----

\* the types of the fields, each with a value that is not its default value
FieldValues ==
    <<VUint(8, 5), VInt(8, -3), VVarUint(16, 300), VVarInt(16, -300),
      VBool(TRUE), VArray(TUint(8), <<VUint(8, 1)>>),
      VFixedArray(TBool, <<VBool(TRUE), VBool(FALSE)>>), VCell(Cell0),
      VMap(TUint(8), TBool, {[val |-> VBool(TRUE), key |-> "1"]}),
      VAddress(Addr1), VBytes(Run(1, 16)), VFixedBytes(Run(1, 16)),
      VString(BOfNat(97, 8)), VToken(3), VTime(BOfNat(5, 64)),
      VExpire(BOfNat(6, 32)), VPublicKey(<<Run(1, 256)>>),
      VRef(VUint(8, 1)), T3U, VOptional(TUint(8), <<VUint(8, 7)>>)>>

\* the names of two fields: distinct, and one name twice
FieldNames == <<<<"x", "y">>, <<"x", "x">>>>

\* a schema with two storage fields, and a third one that is not init
StorageSchema(version, names, a, b, inits, third) ==
    SerdeContract(<<version>>, <<>>, FALSE, <<>>, <<>>, <<>>, <<>>,
        <<[name |-> names[1], kind |-> get_param_type(a), init |-> inits[1]],
          [name |-> names[2], kind |-> get_param_type(b), init |-> inits[2]]>>
        \o (IF third
            THEN <<[name |-> "z", kind |-> get_param_type(a),
                    init |-> FALSE]>>
            ELSE <<>>))

\* a of every type of FieldValues, b of the type that follows it there
StorageSchemas ==
    {StorageSchema(v, FieldNames[n], FieldValues[a],
                   FieldValues[(a % Len(FieldValues)) + 1], inits, third) :
        v \in SupportedVersions, n \in 1..Len(FieldNames),
        a \in 1..Len(FieldValues), inits \in [1..2 -> BOOLEAN],
        third \in BOOLEAN}
      \cup {SerdeContract(<<v>>, <<>>, FALSE, <<>>, <<>>, <<>>, <<>>, <<>>) :
              v \in SupportedVersions}

\* the value of FieldValues of a type
ValueOfType(kind) ==
    FieldValues[CHOOSE i \in 1..Len(FieldValues) :
                   get_param_type(FieldValues[i]) = kind]

\* the values a caller has: of the type of the first field for x, of the
\* second for y, and one for w, which no contract declares
SuppliedValues ==
    IF contract.fields = <<>> THEN <<Token("x", FieldValues[1])>>
    ELSE <<Token("x", ValueOfType(contract.fields[1].kind)),
           Token("y", ValueOfType(contract.fields[2].kind)),
           Token("w", ValueOfType(contract.fields[1].kind))>>

\* the lists of some of the values, in their order
Supplies ==
    {SelectSeq(SuppliedValues, LAMBDA t : t.name \in names) :
        names \in SUBSET {"x", "y", "w"}}

InitStorage ==
    /\ schema \in StorageSchemas
    /\ load(schema).err = ""
    /\ contract = load(schema).contract
    /\ abi_version = contract.abi_version
    /\ data = None /\ read = None
    /\ call = None /\ body = None
    /\ json = None /\ tokenized = None
    /\ tokens = <<>> /\ chain = None /\ decoded = None /\ support = None

\* Contract::encode_storage_fields
EncodeStorageFields ==
    /\ data = None
    /\ \E init_fields \in Supplies :
          data' = [kind |-> "encode_storage_fields",
                   init_fields |-> init_fields,
                   res |-> encode_storage_fields(contract, init_fields)]
    /\ UNCHANGED <<json, tokenized, abi_version, tokens, chain, decoded,
                   contract, schema, support, call, body, read>>

\* Contract::decode_storage_fields on what encode_storage_fields returned
DecodeStorageFields(allow_partial) ==
    /\ data # None /\ data.res.err = ""
    /\ read = None
    /\ read' = [kind |-> "decode_storage_fields",
                res |-> decode_storage_fields(contract, SliceOf(data.res.val),
                                              allow_partial)]
    /\ UNCHANGED <<json, tokenized, abi_version, tokens, chain, decoded,
                   contract, schema, support, call, body, data>>

NextStorage ==
    \/ EncodeStorageFields
    \/ \E allow_partial \in BOOLEAN : DecodeStorageFields(allow_partial)

SpecStorage == InitStorage /\ [][NextStorage]_vars

\* ---- tokenizing JSON ----

RECURSIVE DecDigits(_)
\* the decimal digits of a natural number
DecDigits(v) ==
    IF v < 10 THEN <<Digits[v + 1]>>
    ELSE Append(DecDigits(v \div 10), Digits[(v % 10) + 1])

\* the hex digits of a magnitude
HexDigits(mag) ==
    IF mag = <<>> THEN <<"0">>
    ELSE LET padded == BCat(Run(0, (4 - (BLen(mag) % 4)) % 4), mag)
         IN [i \in 1..(BLen(padded) \div 4) |->
                Digits[BToNat(BSub(padded, 4 * (i - 1), 4)) + 1]]

\* the ways a caller writes a number in JSON
Formats == <<"number", "hex", "decimal">>

\* decimal strings are written for the numbers of a machine word
Writable(number, format) == format = "decimal" => bits(number) <= 30

NumberJson(number, format) ==
    CASE format = "number" -> JNumber(number)
      [] format = "hex" ->
            JString((IF number.neg THEN <<"-">> ELSE <<>>)
                    \o <<"0", "x">> \o HexDigits(number.mag))
      [] format = "decimal" ->
            JString((IF number.neg THEN <<"-">> ELSE <<>>)
                    \o DecDigits(BToNat(number.mag)))

\* the numbers at the ends of the ranges of n bits: 0, -1, 2^(n-1) - 1,
\* 2^(n-1), -2^(n-1), -2^(n-1) - 1, 2^n - 1, 2^n
EdgeValues(n) ==
    <<BigZero,
      Big(TRUE, Run(1, 1)),
      Big(FALSE, Run(1, n - 1)),
      Big(FALSE, BCat(Run(1, 1), Run(0, n - 1))),
      Big(TRUE, BCat(Run(1, 1), Run(0, n - 1))),
      Big(TRUE, BCat(Run(1, 1), BCat(Run(0, n - 2), Run(1, 1)))),
      Big(FALSE, Run(1, n)),
      Big(FALSE, BCat(Run(1, 1), Run(0, n)))>>

IntValues == EdgeValues(8) \o EdgeValues(64) \o EdgeValues(128)
IntTypes == <<TInt(8), TUint(8), TInt(64), TUint(64), TInt(128), TUint(128)>>

\* {"a": number} for the parameter a of an integer type
IntInput(type, number, format) ==
    [kind |-> "int",
     params |-> <<Param("a", type)>>,
     values |-> JObject(<<Member("a", NumberJson(number, format))>>),
     number |-> number]

\* types and a JSON value of each
Samples ==
    <<<<TUint(8), JNumber(Big(FALSE, NatBits(5)))>>,
      <<TInt(8), JString(<<"-", "1">>)>>,
      <<TBool, JBool(TRUE)>>,
      <<TOptional(TUint(8)), JNumber(Big(FALSE, NatBits(5)))>>,
      <<TRef(TOptional(TBool)), JBool(FALSE)>>,
      <<TTuple(<<Param("x", TUint(8)), Param("y", TOptional(TBool))>>),
        JObject(<<Member("x", JNumber(BigZero)), Member("y", JNull)>>)>>,
      <<TTuple(<<Param("x", TUint(8)), Param("y", TOptional(TBool))>>),
        JObject(<<Member("x", JNumber(BigZero))>>)>>,
      <<TArray(TUint(8)), JArray(<<JNumber(BigZero)>>)>>,
      <<TFixedArray(TBool, 1), JArray(<<JString(<<"t", "r", "u", "e">>)>>)>>,
      <<TBytes, JString(<<"0", "0">>)>>,
      <<TString, JString(<<>>)>>>>

\* the members an object has of {"a": .., "b": ..}
Present == <<<<TRUE, TRUE>>, <<TRUE, FALSE>>, <<FALSE, TRUE>>, <<FALSE, FALSE>>>>

\* an object for the parameters a and b, with the members it has
ObjectInput(a, b, has) ==
    [kind |-> "object",
     params |-> <<Param("a", a[1]), Param("b", b[1])>>,
     values |-> JObject((IF has[1] THEN <<Member("a", a[2])>> ELSE <<>>)
                        \o (IF has[2] THEN <<Member("b", b[2])>> ELSE <<>>))]

FixedSizes == <<1, 2>>
HexStrings ==
    <<<<>>, <<"a", "b">>, <<"A", "B", "c", "d">>,
      <<"0", "1", "2", "3", "4", "5">>, <<"a", "b", "c">>, <<"z", "z">>>>

\* {"a": string} for the parameter a of type fixedbytes(size)
BytesInput(size, string) ==
    [kind |-> "bytes",
     params |-> <<Param("a", TFixedBytes(size))>>,
     values |-> JObject(<<Member("a", JString(string))>>)]

InitTokenizer ==
    /\ \/ \E t \in 1..Len(IntTypes), v \in 1..Len(IntValues),
            f \in 1..Len(Formats) :
             /\ Writable(IntValues[v], Formats[f])
             /\ json = IntInput(IntTypes[t], IntValues[v], Formats[f])
       \/ \E a \in 1..Len(Samples), b \in 1..Len(Samples),
            has \in 1..Len(Present) :
             json = ObjectInput(Samples[a], Samples[b], Present[has])
       \/ \E size \in 1..Len(FixedSizes), string \in 1..Len(HexStrings) :
             json = BytesInput(FixedSizes[size], HexStrings[string])
    /\ tokenized = None
    /\ abi_version = MAX_SUPPORTED_VERSION
    /\ contract = None /\ schema = None /\ support = None
    /\ call = None /\ body = None /\ read = None /\ data = None
    /\ tokens = <<>> /\ chain = None /\ decoded = None

\* Tokenizer::tokenize_all_params
Tokenize ==
    /\ json # None
    /\ tokenized = None
    /\ tokenized' = tokenize_all_params(json.params, json.values)
    /\ UNCHANGED <<json, data, abi_version, tokens, chain, decoded, contract,
                   schema, support, call, body, read>>

NextTokenizer == Tokenize

SpecTokenizer == InitTokenizer /\ [][NextTokenizer]_vars


\* ---- integers of variable length ----

\* the byte lengths m of the types varuint(m), varint(m)
VarSizes == <<2, 3, 16>>

\* numbers at the ends of the ranges of one and two bytes
VarValues ==
    <<0, 1, 127, 128, 255, 256, 32767, 32768, 65535, 65536,
      -1, -128, -129, -32768, -32769>>

\* the number as the tokenizer keeps it
ToBig(v) == Big(v < 0, NatBits(IF v < 0 THEN -v ELSE v))

\* {"a": number} for the parameter a of a type of variable length
VarInput(type, v) ==
    [kind |-> "var",
     params |-> <<Param("a", type)>>,
     values |-> JObject(<<Member("a", JNumber(ToBig(v)))>>),
     number |-> ToBig(v)]

\* a number given in JSON for a parameter of a type of variable length, and
\* the token of that type that holds it (its magnitude, for varuint)
InitVar ==
    /\ abi_version \in {v \in SupportedVersions : VerGE(v, ABI_VERSION_2_1)}
    /\ \E m \in 1..Len(VarSizes), i \in 1..Len(VarValues) :
          \/ /\ json = VarInput(TVarUint(VarSizes[m]), VarValues[i])
             /\ tokens = <<Token("a", VVarUint(VarSizes[m],
                                     IF VarValues[i] < 0 THEN -VarValues[i]
                                     ELSE VarValues[i]))>>
          \/ /\ json = VarInput(TVarInt(VarSizes[m]), VarValues[i])
             /\ tokens = <<Token("a", VVarInt(VarSizes[m], VarValues[i]))>>
    /\ tokenized = None
    /\ chain = None
    /\ decoded = None
    /\ contract = None /\ schema = None /\ support = None
    /\ call = None /\ body = None /\ read = None /\ data = None

NextVar ==
    \/ Tokenize
    \/ Encode
    \/ Decode

SpecVar == InitVar /\ [][NextVar]_vars


\* ---- byte strings ----

\* the lengths of the byte strings: none, parts of a cell, one, two and
\* three cells and what is next to them
ByteLengths == <<0, 1, 46, 126, 127, 128, 254, 255, 300, 381>>

\* n bytes: 0x00 first, 0xff after it
SomeBytes(n) == IF n = 0 THEN <<>> ELSE BCat(Run(0, 8), Run(1, 8 * (n - 1)))

\* bytes, fixedbytes and string of that data
ByteValues(bytes) == <<VBytes(bytes), VFixedBytes(bytes), VString(bytes)>>

InitBytes ==
    /\ abi_version \in SupportedVersions
    /\ \E n \in 1..Len(ByteLengths), t \in 1..3 :
          tokens = <<Token(pname(1),
                           ByteValues(SomeBytes(ByteLengths[n]))[t])>>
    /\ chain = None
    /\ decoded = None
    /\ contract = None /\ schema = None /\ support = None
    /\ call = None /\ body = None /\ read = None
    /\ json = None /\ tokenized = None /\ data = None

NextBytes ==
    \/ Encode
    \/ Decode

SpecBytes == InitBytes /\ [][NextBytes]_vars


\* ---- claims on the codec ----

Encoded == chain # None /\ chain.kind = "encoder" /\ chain.res.err = ""

\* C1: decoding (allow_partial = false) the chain the serializer produced for
\* a token list returns that token list, in every supported version.
C1_RoundTrip ==
    (Encoded /\ decoded # None)
        => (decoded.err = "" /\ decoded.value = tokens)

\* the footprint of a serialized value: max sizes from ABI 2.2 on, the sizes
\* it uses before
FootBits(value) ==
    IF VerGE(abi_version, ABI_VERSION_2_2) THEN value.max_bits
    ELSE bits_used(value.data)
FootRefs(value) ==
    IF VerGE(abi_version, ABI_VERSION_2_2) THEN value.max_refs
    ELSE references_used(value.data)

RECURSIVE SumFootBits(_, _, _), SumFootRefs(_, _, _), CellStart(_)
SumFootBits(values, lo, hi) ==
    IF lo > hi THEN 0
    ELSE FootBits(values[lo]) + SumFootBits(values, lo + 1, hi)
SumFootRefs(values, lo, hi) ==
    IF lo > hi THEN 0
    ELSE FootRefs(values[lo]) + SumFootRefs(values, lo + 1, hi)

\* the index of the first value of cell j of the chain
CellStart(j) == IF j = 1 THEN 1 ELSE CellStart(j - 1) + chain.packed[j - 1].n

\* value i is the first of a cell of the chain
NewCellAt(i) == \E j \in 2..Len(chain.packed) : CellStart(j) = i

\* the index of the first value of the cell that holds value i
StartOf(i) ==
    CellStart(CHOOSE j \in 1..Len(chain.packed) :
                 /\ CellStart(j) <= i
                 /\ i < CellStart(j) + chain.packed[j].n)

\* the rule for value i, after values StartOf(i-1)..i-1 of the current cell
PackingRule(i) ==
    LET values == chain.values
        n == Len(values)
        from == StartOf(i - 1)
        bits_budget == bits_capacity - SumFootBits(values, from, i - 1)
        refs_budget == references_capacity - SumFootRefs(values, from, i - 1)
        own_bits == FootBits(values[i])
        own_refs == FootRefs(values[i])
        later_bits == SumFootBits(values, i + 1, n)
        later_refs == SumFootRefs(values, i + 1, n)
    IN \/ own_bits > bits_budget
       \/ own_refs > refs_budget
       \/ /\ own_refs >= 1
          /\ own_refs = refs_budget
          /\ \/ abi_version = ABI_VERSION_1_0
             \/ later_refs > 0
             \/ later_bits + own_bits > bits_budget

\* C2: each value after the first starts a new cell exactly when (a) its
\* footprint exceeds the remaining budget of the current cell or (b) it has
\* references, they equal the remaining reference budget, and the ABI is
\* 1.0 or a later value needs a reference or the later bits plus its own
\* exceed the remaining bit budget; otherwise it is appended.
C2_PackingRule ==
    Encoded => \A i \in 2..Len(chain.values) : NewCellAt(i) <=> PackingRule(i)

\* a chain where one value started a cell by (b) and another, whose
\* references also equalled the budget, was appended
C2_Witness ==
    /\ Encoded
    /\ abi_version # ABI_VERSION_1_0
    /\ \E i \in 2..Len(chain.values) :
          /\ NewCellAt(i)
          /\ FootRefs(chain.values[i]) = 1
          /\ FootBits(chain.values[i])
               <= bits_capacity
                    - SumFootBits(chain.values, StartOf(i - 1), i - 1)
    /\ \E i \in 2..Len(chain.values) :
          /\ ~NewCellAt(i)
          /\ FootRefs(chain.values[i]) = 1
          /\ SumFootRefs(chain.values, StartOf(i - 1), i) = references_capacity

\* C3: from ABI 2.2 on, whenever decode_params (allow_partial = false)
\* succeeds on a chain, re-encoding the decoded values gives every value the
\* same cell, and the serializer's own chain is never rejected with
\* WrongDataLayout.
C3_Mirror ==
    (chain # None /\ decoded # None /\ VerGE(abi_version, ABI_VERSION_2_2))
        => /\ decoded.err = ""
                => pack_values_into_chain(decoded.value, <<>>, abi_version)
                     = chain.res
           /\ chain.kind = "encoder" => decoded.err # "WrongDataLayout"

\* the values of the tokens alone decode (allow_partial = false)
CleanDecodes ==
    decode_params(TokensParams(tokens), SliceOf(chain.clean), abi_version,
                  FALSE).err = ""

\* C12: for every parameter list, the empty one included, decode_params with
\* allow_partial = false fails with IncompleteDeserialization on a chain that
\* holds a bit or a reference more than the values, and with allow_partial =
\* true the bit or reference more never makes it fail.
C12_FullDecode ==
    (chain # None /\ chain.kind = "trailing" /\ CleanDecodes)
        => /\ decoded # None
                => decoded.err = "IncompleteDeserializationError"
           /\ read # None => read.res.err = ""

\* the chain holds the first k values in its head cell and the others in the
\* continuation
SplitAt(k) ==
    chain.packed = <<join_values(SubSeq(chain.values, 1, k)),
                     join_values(SubSeq(chain.values, k + 1,
                                        Len(chain.values)))>>

\* the bits and references the value holds fit in what the cell leaves unused
\* beside its continuation link
FitsBehind(cell, value) ==
    /\ bits_used(value.data) <= bits_free(cell.data)
    /\ references_used(value.data) <= references_free(cell.data) - 1

\* C13: below ABI 2.2, the decoder rejects (WrongDataLayout) a chain where a
\* value is at the start of the continuation cell although the bits and
\* references it holds fit in what the previous cell leaves unused: it never
\* returns the values from such a chain.
C13_LayoutBefore22 ==
    (/\ chain # None
     /\ chain.kind = "foreign"
     /\ decoded # None
     /\ ~VerGE(abi_version, ABI_VERSION_2_2))
        => \A k \in 1..(Len(chain.values) - 1) :
              (SplitAt(k) /\ FitsBehind(chain.packed[1], chain.values[k + 1]))
                 => ~(decoded.err = "" /\ decoded.value = tokens)


RECURSIVE ChainCell(_)
\* cell j of the chain the serializer returned: the root, then the last
\* reference of the cell before
ChainCell(j) ==
    IF j = 1 THEN chain.res.val
    ELSE LET before == ChainCell(j - 1)
         IN before.refs[Len(before.refs)]

\* cell j of the chain holds what the packer put in builder j and, when it is
\* not the terminal cell, one reference more behind it
HoldsPacked(j) ==
    LET cell == ChainCell(j)
        own == chain.packed[j].data
    IN IF j = Len(chain.packed) THEN cell = own
       ELSE /\ cell.bits = own.bits
            /\ Len(cell.refs) = Len(own.refs) + 1
            /\ SubSeq(cell.refs, 1, Len(own.refs)) = own.refs

\* C20: every cell of a chain the packer produced holds at most 1023 bits
\* and at most 4 references with the continuation link, and the link is the
\* last reference of every non-terminal cell.
C20_ChainCells ==
    Encoded
        => \A j \in 1..Len(chain.packed) :
              /\ bits_used(chain.packed[j].data) <= bits_capacity
              /\ references_used(chain.packed[j].data)
                    + (IF j < Len(chain.packed) THEN 1 ELSE 0)
                    <= references_capacity
              /\ HoldsPacked(j)

\* a chain of two cells whose first cell holds three references of values
\* and the link behind them
C20_Witness ==
    /\ Encoded
    /\ Len(chain.packed) = 2
    /\ references_used(chain.packed[1].data) = 3
    /\ references_used(chain.res.val) = references_capacity
    /\ chain.res.val.refs[references_capacity] = chain.packed[2].data


\* C21: in ABI 1.0 no value holds the fourth reference of a cell of the
\* chain: the last reference slot of every cell the packer filled is the
\* continuation link or unused.
C21_LastSlotV1 ==
    (Encoded /\ abi_version = ABI_VERSION_1_0)
        => \A j \in 1..Len(chain.packed) :
              /\ references_used(chain.packed[j].data) < references_capacity
              /\ references_used(ChainCell(j)) = references_capacity
                    => /\ j < Len(chain.packed)
                       /\ ChainCell(j).refs[references_capacity]
                            = ChainCell(j + 1)

\* an ABI 1.0 chain whose value with one reference met one free slot and
\* went to the next cell, the slot taking the link
C21_Witness ==
    /\ Encoded /\ abi_version = ABI_VERSION_1_0
    /\ Len(chain.packed) = 2
    /\ references_used(chain.packed[1].data) = references_capacity - 1
    /\ references_used(chain.packed[2].data) >= 1
    /\ bits_used(chain.packed[1].data) + bits_used(chain.packed[2].data)
          <= bits_capacity
    /\ references_used(ChainCell(1)) = references_capacity


\* every token, serialized alone, is read back by the decoder
Readable ==
    \A i \in 1..Len(tokens) :
       With(pack_values_into_chain(<<tokens[i]>>, <<>>, abi_version),
         LAMBDA alone :
           /\ alone.err = ""
           /\ decode_params(TokensParams(<<tokens[i]>>), SliceOf(alone.val),
                            abi_version, FALSE).err = "")

\* the values of the head cell of the chain have max sizes beyond a cell
HeadBeyondCell ==
    \/ SumFootBits(chain.values, 1, chain.packed[1].n) > bits_capacity
    \/ SumFootRefs(chain.values, 1, chain.packed[1].n) > references_capacity

\* C22: from ABI 2.2 on, the decoder fails with WrongDataLayout when the max
\* bit sizes of the values it reads from one cell sum to more than 1023 or
\* their max reference counts to more than 4, although the data of those
\* values, each of them readable, fits in the cell.
C22_MaxFootprint ==
    (/\ chain # None
     /\ chain.kind \in {"joined", "foreign"}
     /\ decoded # None
     /\ VerGE(abi_version, ABI_VERSION_2_2)
     /\ Readable
     /\ HeadBeyondCell)
        => decoded.err = "WrongDataLayout"

\* two addresses, 534 bits of 1182 at most, arrived in one cell and the
\* decoder refused them
C22_Witness ==
    /\ chain # None /\ chain.kind = "joined"
    /\ VerGE(abi_version, ABI_VERSION_2_2)
    /\ Len(tokens) = 2
    /\ \A i \in 1..2 : tokens[i].value.tag = "address"
    /\ bits_used(chain.res.val) <= bits_capacity
    /\ SumBits(TokensParams(tokens)) > bits_capacity
    /\ decoded # None /\ decoded.err = "WrongDataLayout"


\* the first of two parameters is a tuple that ends with a cell or an array
TupleBeforeLast ==
    /\ Len(tokens) = 2
    /\ tokens[1].value.tag = "tuple"
    /\ tokens[1].value.v[Len(tokens[1].value.v)].value.tag
          \in {"cell", "array"}

Container == tokens[1].value
ItemType == Container.ty[Len(Container.ty)]
ItemsOf(container) ==
    IF container.tag = "map" THEN {e.val : e \in container.v}
    ELSE {container.v[i] : i \in 1..Len(container.v)}
KeyBits ==
    IF Container.tag = "map" THEN get_map_key_size(Container.ty[1]) ELSE 32
DictEntries == chain.res.val.refs[1].dict[2]

\* the dictionary holds the serialized value itself, or one reference to it
InlineLeaf(leaf) ==
    \E value \in ItemsOf(Container) :
       leaf = pack_into_chain(value, abi_version).val
RefLeaf(leaf) ==
    \E value \in ItemsOf(Container) :
       leaf = MkCell(<<>>, <<pack_into_chain(value, abi_version).val>>)

\* C25: a value of an array, fixed array or map is stored in the dictionary
\* itself exactly when 12 + key bits + the max bit size of its type is at
\* most 1023, in a reference otherwise, and the decoder follows a reference
\* in the same cases, so it reads the values the encoder stored.
C25_DictValues ==
    (Encoded /\ ItemsOf(Container) # {})
        => /\ \A e \in DictEntries :
                 IF MAX_HASH_MAP_INFO_ABOUT_KEY + KeyBits
                      + max_bit_size(ItemType) <= 1023
                 THEN InlineLeaf(e.leaf)
                 ELSE RefLeaf(e.leaf)
           /\ decoded # None
                 => (decoded.err = "" /\ decoded.value = tokens)


\* ---- claims on integers of variable length ----

\* the serializer was given one token of type varuint(m) or varint(m)
VarToken == tokens[1].value

\* C26: serializing a varint(m) or varuint(m) of value zero writes the
\* length prefix alone, with the value 0, and no payload bits.
C26_ZeroVar ==
    (chain # None /\ chain.kind = "encoder" /\ VarToken.v = 0)
        => /\ chain.res.err = ""
           /\ chain.res.val
                = MkCell(Run(0, varint_size_len(VarToken.size)), <<>>)

\* v fits in m - 1 bytes: 0 <= v < 2^(8 * (m - 1)); the numbers of the
\* model are below 2^17
FitsVarUint(m, v) == 0 <= v /\ (8 * (m - 1) > 17 \/ v < 2^(8 * (m - 1)))

\* C27: the tokenizer and the serializer accept a value v of varuint(m)
\* exactly when it fits in m - 1 bytes, 0 <= v < 2^(8 * (m - 1)).
C27_VarUintRange ==
    /\ (json # None /\ json.params[1].kind.tag = "varuint"
            /\ tokenized # None)
          => (tokenized.err = ""
                <=> (~json.number.neg
                       /\ bits(json.number)
                            <= 8 * (json.params[1].kind.size - 1)))
    /\ (chain # None /\ chain.kind = "encoder" /\ VarToken.tag = "varuint")
          => (chain.res.err = "" <=> FitsVarUint(VarToken.size, VarToken.v))


\* ---- claims on byte strings ----

RECURSIVE CellBytes(_)
\* the bytes each cell of a chain of byte cells holds, outermost first
CellBytes(cell) ==
    <<BytesLen(cell.bits)>>
      \o (IF cell.refs = <<>> THEN <<>> ELSE CellBytes(cell.refs[1]))

\* the chain of byte cells the value of the token was written to
ByteChain == CellBytes(chain.res.val.refs[1])

\* a cell takes 127 bytes
CellLen == bits_capacity \div 8

InRange(type, number) ==
    IF type.tag = "int"
    THEN \/ bits(number) <= type.size - 1
         \/ number = Big(TRUE, BCat(Run(1, 1), Run(0, type.size - 1)))
    ELSE ~number.neg /\ bits(number) <= type.size

\* C14: tokenizing int(n) accepts a number, written as a JSON number or as a
\* decimal or hex string, exactly when -2^(n-1) <= v < 2^(n-1), and uint(n)
\* exactly when 0 <= v < 2^n.
C14_IntRange ==
    (json # None /\ json.kind = "int" /\ tokenized # None)
        => (tokenized.err = "" <=> InRange(json.params[1].kind, json.number))

\* the object has a member of that key
HasKey(value, key) == \E i \in 1..Len(value.v) : value.v[i].key = key

RECURSIVE MissingKey(_, _)
\* the object lacks the key of a parameter, or the object given for a tuple
\* lacks the key of a component
MissingKey(params, value) ==
    \E i \in 1..Len(params) :
       \/ ~HasKey(value, params[i].name)
       \/ /\ params[i].kind.tag = "tuple"
          /\ get_or_null(value.v, params[i].name).j = "object"
          /\ MissingKey(params[i].kind.sub,
                        get_or_null(value.v, params[i].name))

\* C18: tokenizing a JSON object against a parameter list, of a function or
\* of a tuple, fails when the object has no key for a declared parameter,
\* whatever the type of the parameter.
C18_MissingKeys ==
    (/\ json # None
     /\ json.kind = "object"
     /\ tokenized # None
     /\ MissingKey(json.params, json.values))
        => tokenized.err # ""

\* C19: tokenizing a hex string as fixedbytes(n) succeeds only if the string
\* writes exactly n bytes, two digits a byte.
C19_FixedBytesLength ==
    (json # None /\ json.kind = "bytes" /\ tokenized # None)
        => (tokenized.err = ""
              => Len(json.values.v[1].value.v) = 2 * json.params[1].kind.size)


\* ---- claims on calls ----

\* encode_input returned a body
InputBody == body # None /\ body.kind = "encode_input" /\ body.res.err = ""

\* C4: decoding (same internal flag, allow_partial = false) the body
\* encode_input produced for a function of the loaded contract returns that
\* function and the input tokens, in every supported version, signed or not.
C4_InputRoundTrip ==
    (InputBody /\ read # None /\ read.kind = "input")
        => /\ read.res.err = ""
           /\ read.res.function_name = call.function.name
           /\ read.res.tokens = call.input

\* create_unsigned_call reserved the signature and fill_sign put one in
SignedBody ==
    /\ call # None /\ call.res.err = "" /\ call.reserve_sign
    /\ body # None /\ body.kind = "fill_sign" /\ body.res.err = ""
    /\ body.signature # <<>>

\* C5: get_signature_data on a body of create_unsigned_call (reserve_sign)
\* completed by fill_sign with a signature returns that signature and the
\* hash create_unsigned_call returned, given the same address from ABI 2.3 on.
C5_SignatureData ==
    (/\ SignedBody
     /\ read # None /\ read.kind = "signature"
     /\ VerGE(abi_version, ABI_VERSION_2_3) => read.address = call.address)
        => /\ read.res.err = ""
           /\ read.res.signature = body.signature[1]
           /\ read.res.hash = call.res.hash

\* the signature and the hash were read, with the address of the call, from
\* a signed external body of ABI 2.3 or later that carries inputs
C5_Witness ==
    /\ SignedBody /\ ~call.internal
    /\ read # None /\ read.kind = "signature" /\ read.res.err = ""
    /\ VerGE(abi_version, ABI_VERSION_2_3)
    /\ read.address = call.address
    /\ read.res.signature = Signature1
    /\ call.input # <<>>

\* the call made, made for another destination address
CallFor(address) ==
    create_unsigned_call(call.function, call.header, call.input,
                         call.internal, call.reserve_sign, address, call.now)

\* a completed body with its signature prelude taken off: the reference of
\* ABI 1.0, the flag bit and the signature after it of the later versions
WithoutPrelude(builder) ==
    IF abi_version = ABI_VERSION_1_0
    THEN MkCell(builder.bits, Tail(builder.refs))
    ELSE MkCell(BDrop(builder.bits,
                      IF body.signature # <<>> THEN 1 + SIGNATURE_BITS ELSE 1),
                builder.refs)

SignCall ==
    /\ call # None /\ call.res.err = "" /\ ~call.internal
    /\ call.reserve_sign

\* C6: the pre-image of the hash to sign is, from ABI 2.3 on, the destination
\* address followed by the body without its signature prelude, and the call
\* made for another address has another pre-image; before ABI 2.3 it is the
\* body without the prelude alone, the same for every address.
C6_HashPreimage ==
    SignCall =>
        /\ IF VerGE(abi_version, ABI_VERSION_2_3)
           THEN /\ call.address # <<>>
                /\ call.res.hash.preimage =
                     append_builder(write_address(call.address[1]).val,
                                    call.res.builder)
                /\ \A other \in Range(Addresses) :
                     (other # <<>> /\ other # call.address)
                         => /\ CallFor(other).err = ""
                            /\ CallFor(other).hash # call.res.hash
           ELSE /\ call.res.hash.preimage = call.res.builder
                /\ \A other \in Range(Addresses) :
                     /\ CallFor(other).err = ""
                     /\ CallFor(other).hash = call.res.hash
        /\ (body # None /\ body.res.err = "")
               => call.res.builder = WithoutPrelude(body.res.val)

\* a call with inputs was made for signing in ABI 2.3 or later and its body
\* was completed with a signature
C6_Witness ==
    /\ SignCall /\ VerGE(abi_version, ABI_VERSION_2_3)
    /\ call.input # <<>>
    /\ call.res.hash.preimage.bits # call.res.builder.bits
    /\ body # None /\ body.res.err = "" /\ body.signature # <<>>

RECURSIVE ChainBits(_, _)
\* the data bits of the first n cells of a chain, in order
ChainBits(cell, n) ==
    IF n <= 1 THEN cell.bits
    ELSE BCat(cell.bits, ChainBits(cell.refs[Len(cell.refs)], n - 1))

RECURSIVE ChainRefs(_, _)
\* the references of the first n cells of a chain that do not continue it
ChainRefs(cell, n) ==
    IF n <= 1 THEN cell.refs
    ELSE SubSeq(cell.refs, 1, Len(cell.refs) - 1)
         \o ChainRefs(cell.refs[Len(cell.refs)], n - 1)

RECURSIVE ValuesBits(_)
ValuesBits(values) ==
    IF values = <<>> THEN <<>>
    ELSE BCat(values[1].data.bits, ValuesBits(Tail(values)))

RECURSIVE ValuesRefs(_)
ValuesRefs(values) ==
    IF values = <<>> THEN <<>>
    ELSE values[1].data.refs \o ValuesRefs(Tail(values))

\* the value a header parameter has in the call made: the one given, or the
\* time of the call, no expiration, no public key
HeaderValue(param) ==
    IF \E i \in 1..Len(call.header) : call.header[i].name = param.name
    THEN call.header[CHOOSE i \in 1..Len(call.header) :
                         call.header[i].name = param.name].value
    ELSE CASE param.kind.tag = "time" -> VTime(call.now)
           [] param.kind.tag = "expire" -> VExpire(Run(1, 32))
           [] OTHER -> VPublicKey(<<>>)

\* the header of the call made, in the order the schema declares it
DeclaredHeader ==
    [i \in 1..Len(contract.header) |->
        Token(contract.header[i].name, HeaderValue(contract.header[i]))]

HeaderBits == ValuesBits(write_tuple(DeclaredHeader, abi_version).val)
InputBits == ValuesBits(write_tuple(call.input, abi_version).val)
InputRefs == ValuesRefs(write_tuple(call.input, abi_version).val)
Selector == call.function.input_id

\* the flag bit and, after a flag of one, the 512 bits of the signature
SignatureBits ==
    IF body.signature # <<>> THEN BCat(Run(1, 1), body.signature[1])
    ELSE Run(0, 1)

BodyBits == ChainBits(body.res.val, call.ncells)
BodyRefs == ChainRefs(body.res.val, call.ncells)

ExternalBody ==
    /\ body # None /\ body.res.err = "" /\ ~call.internal
    /\ abi_version = ABI_VERSION_1_0 \/ abi_version.major >= 2

InternalBody ==
    /\ body # None /\ body.res.err = "" /\ call.internal
    /\ body.kind = "encode_input"
    /\ abi_version = ABI_VERSION_1_0 \/ abi_version.major >= 2

\* the order of the parts of a body
BodyLaidOut ==
    /\ ExternalBody =>
         IF abi_version = ABI_VERSION_1_0
         THEN /\ BodyBits = BCat(Selector, BCat(HeaderBits, InputBits))
              /\ BodyRefs # <<>>
              /\ Tail(BodyRefs) = InputRefs
              /\ body.signature # <<>> =>
                    BTake(BodyRefs[1].bits, SIGNATURE_BITS) = body.signature[1]
         ELSE /\ BodyBits = BCat(SignatureBits,
                              BCat(HeaderBits, BCat(Selector, InputBits)))
              /\ BodyRefs = InputRefs
    /\ InternalBody =>
         /\ BodyBits = BCat(Selector, InputBits)
         /\ BodyRefs = InputRefs

\* decode_header returns the parts ahead of the inputs
HeaderReadBack ==
    ((ExternalBody \/ InternalBody) /\ read # None /\ read.kind = "header")
        => /\ read.res.err = ""
           /\ read.res.id = Selector
           /\ read.res.tokens = IF call.internal THEN <<>> ELSE DeclaredHeader

\* C8: an external input body holds, and decode_header reads back, in ABI 1.0
\* the signature reference, the selector, the header parameters in the order
\* declared and the inputs; from ABI 2.0 on the signature flag bit with the
\* signature after a flag of one, the header parameters in the order
\* declared, the selector and the inputs.  An internal body holds the
\* selector and the inputs alone.
C8_BodyLayout == BodyLaidOut /\ HeaderReadBack

\* C15: from ABI 2.3 on, create_unsigned_call with reserve_sign and no
\* destination address fails with AddressRequired where the same call with
\* an address succeeds, and so does get_signature_data with no address on a
\* signed body; below 2.3 neither fails with AddressRequired.
C15_AddressRequired ==
    /\ (call # None /\ call.kind = "call")
          => IF VerGE(abi_version, ABI_VERSION_2_3)
             THEN (/\ call.reserve_sign
                   /\ call.address = <<>>
                   /\ CallFor(<<Addr1>>).err = "")
                     => call.res.err = "AddressRequired"
             ELSE call.res.err # "AddressRequired"
    /\ (read # None /\ read.kind = "signature")
          => IF VerGE(abi_version, ABI_VERSION_2_3)
             THEN (SignedBody /\ read.address = <<>>)
                     => read.res.err = "AddressRequired"
             ELSE read.res.err # "AddressRequired"

\* a call of ABI 2.3 or later was made with reserve_sign for an address and
\* signed, and get_signature_data, given no address, refused its body
C15_Witness ==
    /\ SignedBody /\ ~call.internal
    /\ VerGE(abi_version, ABI_VERSION_2_3)
    /\ call.address # <<>>
    /\ read # None /\ read.kind = "signature" /\ read.address = <<>>
    /\ read.res.err = "AddressRequired"


\* values of the types of the inputs of f1, f2, ... that use other sizes
OtherInputs ==
    <<<<>>,
      <<Token("a", VUint(8, 0))>>,
      <<Token("a", VAddress(AddrNone))>>,
      <<Token("a", VCell(EmptyCell)), Token("b", VCell(Cell0)),
        Token("c", VCell(EmptyCell)), Token("d", VCell(Cell0))>>,
      <<Token("a", T3U)>>>>

\* the inputs a call of the function can be made with
InputsOf(function) ==
    {pool[k] : pool \in {CallInputs, OtherInputs},
               k \in {k \in 1..Len(CallInputs) : fname(k) = function.name}}

\* how many values each cell of the chain holds
Layout(packed) == [j \in 1..Len(packed) |-> packed[j].n]

\* the layouts of the calls that differ from the call made in the values of
\* the header, the values of the inputs and the signing
OtherLayouts ==
    {Layout(packed.val) :
        packed \in {packed \in
            {call_values(call.function, header, input, call.internal,
                         reserve_sign, call.now) :
                header \in Range(HeaderTokens),
                input \in InputsOf(call.function),
                reserve_sign \in BOOLEAN} : packed.err = ""}}

\* C24: from ABI 2.2 on, the packer puts the values of a call in the same
\* cells whatever sizes the values of the header and of the inputs use, and
\* the same for the signed as for the unsigned encoding of the call.
C24_LayoutByTypes ==
    (/\ call # None /\ call.kind = "call" /\ call.res.err = ""
     /\ VerGE(abi_version, ABI_VERSION_2_2))
        => \A layout \in OtherLayouts :
              /\ Len(layout) = call.ncells
              /\ layout = Layout(call_values(call.function, call.header,
                                             call.input, call.internal,
                                             call.reserve_sign, call.now).val)

\* an unsigned call of f3 whose address went to a second cell although
\* the values of the call use less than one cell
C24_Witness ==
    /\ call # None /\ call.kind = "call" /\ call.res.err = ""
    /\ VerGE(abi_version, ABI_VERSION_2_2)
    /\ ~call.internal /\ ~call.reserve_sign
    /\ call.function.name = fname(3)
    /\ call.ncells = 2
    /\ bits_used(call.res.builder) + bits_used(call.res.builder.refs[1])
          <= bits_capacity
    /\ Cardinality(OtherLayouts) = 1


\* ---- claims on the initial data ----

\* the value written last for the item of this name
LastWritten(name) ==
    data.tokens[CHOOSE i \in 1..Len(data.tokens) :
                  /\ data.tokens[i].name = name
                  /\ \A j \in (i + 1)..Len(data.tokens) :
                        data.tokens[j].name # name].value

\* update_data wrote tokens of declared items and decode_data read the result
Updated ==
    /\ data.kind = "update_data" /\ data.res.err = ""
    /\ data.tokens # <<>>
    /\ \A i \in 1..Len(data.tokens) :
          \E item \in contract.data : item.name = data.tokens[i].name
    /\ read # None /\ read.kind = "decode_data"

\* C16: below ABI 2.4, decode_data of what update_data returned for tokens of
\* declared data items returns, for every item written, the value written.
C16_DataRoundTrip ==
    (Updated /\ VerLT(abi_version, ABI_VERSION_2_4))
        => /\ read.res.err = ""
           /\ \A i \in 1..Len(data.tokens) :
                 {read.res.val[k] : k \in {k \in 1..Len(read.res.val) :
                      read.res.val[k].name = data.tokens[i].name}}
                   = {Token(data.tokens[i].name,
                            LastWritten(data.tokens[i].name))}

\* C17: from ABI 2.4 on, update_data and decode_data fail with NotSupported
\* and the data is left as it was; below 2.4 neither fails with NotSupported.
C17_DataMapSupport ==
    /\ data.kind = "update_data"
          => IF VerGE(abi_version, ABI_VERSION_2_4)
             THEN data.res.err = "NotSupported" /\ data.cell = data.initial
             ELSE data.res.err # "NotSupported"
    /\ (read # None /\ read.kind = "decode_data")
          => IF VerGE(abi_version, ABI_VERSION_2_4)
             THEN read.res.err = "NotSupported"
             ELSE read.res.err # "NotSupported"

\* at ABI 2.4 update_data refused tokens of declared items and decode_data
\* refused the data
C17_Witness ==
    /\ abi_version = ABI_VERSION_2_4
    /\ data.kind = "update_data" /\ Len(data.tokens) = 2
    /\ data.res.err = "NotSupported"
    /\ read # None /\ read.kind = "decode_data"
    /\ read.res.err = "NotSupported"

\* the entries of the dictionary of a data cell
Entries(cell) ==
    with_hashmap(DATA_MAP_KEYLEN, reference_opt(SliceOf(cell))).val

\* the last call wrote the data
Wrote == data.kind \in {"update_data", "insert_pubkey"} /\ data.res.err = ""

\* the key of the data item of a token
KeyOf(token) ==
    BOfNat((CHOOSE item \in contract.data : item.name = token.name).key,
           DATA_MAP_KEYLEN)

\* the writes of the last call, in order: the key and the value of each
Writes ==
    IF data.kind = "insert_pubkey"
    THEN <<[key |-> BOfNat(0, DATA_MAP_KEYLEN),
            leaf |-> MkCell(data.pubkey, <<>>)]>>
    ELSE [i \in 1..Len(data.tokens) |->
            [key |-> KeyOf(data.tokens[i]),
             leaf |-> pack_into_chain(data.tokens[i].value,
                                      abi_version).val]]

\* the write of the last call that is the most recent one to its key
MostRecent(i) == \A j \in (i + 1)..Len(Writes) : Writes[j].key # Writes[i].key

\* C29: a call of update_data or insert_pubkey that succeeds leaves every
\* entry of the dictionary whose key it does not write as it was, the public
\* key at key 0 among them, adds no entry at such a key, and leaves at every
\* key it writes the value of its most recent write to that key; get_pubkey
\* returns the key that insert_pubkey wrote, and after an update_data that
\* does not write key 0 what it returned before.  As every call starts from
\* the data the call before left, each key holds the most recent write to it
\* after any sequence of calls.
C29_OnlyNamedEntries ==
    /\ Wrote =>
         /\ \A e \in Entries(data.initial) \cup Entries(data.cell) :
               (\A i \in 1..Len(Writes) : Writes[i].key # e.key)
                  => (e \in Entries(data.initial) /\ e \in Entries(data.cell))
         /\ \A i \in 1..Len(Writes) :
               MostRecent(i)
                  => {e \in Entries(data.cell) : e.key = Writes[i].key}
                        = {Writes[i]}
    /\ (Wrote /\ read # None /\ read.kind = "get_pubkey") =>
         IF data.kind = "insert_pubkey"
         THEN read.res = Ok(<<data.pubkey>>)
         ELSE (\A i \in 1..Len(Writes) :
                  Writes[i].key # BOfNat(0, DATA_MAP_KEYLEN))
                 => read.res = get_pubkey(SliceOf(data.initial))

\* after insert_pubkey wrote a key of ones, update_data wrote b and then a
\* beside it, and get_pubkey returned the key of ones
C29_Witness ==
    /\ Wrote /\ data.kind = "update_data" /\ Len(data.tokens) = 2
    /\ \A i \in 1..Len(Writes) : Writes[i].key # BOfNat(0, DATA_MAP_KEYLEN)
    /\ Cardinality(Entries(data.initial)) = 1
    /\ Cardinality(Entries(data.cell)) = 3
    /\ read # None /\ read.kind = "get_pubkey"
    /\ read.res = Ok(<<PublicKeys[2]>>)

\* ---- claims on the storage fields ----

\* encode_storage_fields was called
EncodedFields == data # None /\ data.kind = "encode_storage_fields"

\* the caller supplied a value of this name
Supplied(name) ==
    \E i \in 1..Len(data.init_fields) : data.init_fields[i].name = name

\* the value the caller supplied for this name
SuppliedFor(name) ==
    data.init_fields[CHOOSE i \in 1..Len(data.init_fields) :
                        data.init_fields[i].name = name].value

\* an init field that is not supplied, or another field that is
Missupplied ==
    \E i \in 1..Len(schema.fields) :
        schema.fields[i].init # Supplied(schema.fields[i].name)

\* one value for each declared field, in the order of the declaration: the
\* supplied one of an init field, the default one of another field
FieldTokens ==
    [i \in 1..Len(schema.fields) |->
        Token(schema.fields[i].name,
              IF schema.fields[i].init
              THEN SuppliedFor(schema.fields[i].name)
              ELSE default_value(schema.fields[i].kind))]

\* what the claim says of the call
AsClaimed ==
    IF VerLT(abi_version, ABI_VERSION_2_4)
    THEN data.res.err = "NotSupported"
    ELSE IF Missupplied THEN data.res.err = "InvalidInputData"
    ELSE data.res = pack_values_into_chain(FieldTokens, <<>>, abi_version)

\* no two init fields have the same name
DistinctInit ==
    \A i, j \in 1..Len(schema.fields) :
        (schema.fields[i].init /\ schema.fields[j].init
           /\ schema.fields[i].name = schema.fields[j].name) => i = j

\* C30, as stated: from ABI 2.4 on, encode_storage_fields returns the chain of
\* one value for each declared storage field, in the order of the
\* declaration, the supplied value for an init field and the default value
\* of the type for another field; it fails with InvalidInputData when an
\* init field is not supplied or another field is; below ABI 2.4 it fails
\* with NotSupported.
C30_StorageFields == EncodedFields => AsClaimed

\* C30, amended: the same for a contract no two init fields of which have
\* the same name; with two init fields of one name the call fails with
\* InvalidInputData from ABI 2.4 on, whatever is supplied.
C30_StorageFieldsAmended ==
    EncodedFields =>
        IF DistinctInit \/ VerLT(abi_version, ABI_VERSION_2_4)
        THEN AsClaimed
        ELSE data.res.err = "InvalidInputData"

\* at ABI 2.4 the init field x was supplied beside a value no field is
\* declared for, y and z took their default values, and the three values
\* were read back in the order of the declaration
C30_Witness ==
    /\ EncodedFields /\ abi_version = ABI_VERSION_2_4
    /\ Len(schema.fields) = 3
    /\ schema.fields[1].init /\ ~schema.fields[2].init
    /\ schema.fields[1].name # schema.fields[2].name
    /\ Len(data.init_fields) = 2
    /\ data.res.err = ""
    /\ read # None /\ read.res.err = ""
    /\ read.res.value = FieldTokens
    /\ read.res.value[1].value # default_value(schema.fields[1].kind)
    /\ read.res.value[2].value = default_value(schema.fields[2].kind)

\* ---- claims on loading ----

Loaded == contract # None /\ contract.kind = "load" /\ contract.res.err = ""

\* the function the schema declares and the one loaded from it
DeclaredFunction == schema.functions[1]
LoadedFunction ==
    CHOOSE func \in contract.res.contract.functions :
        func.name = DeclaredFunction.serde.name

\* C7: without an explicit id the input id is the digest word h of the
\* signature with bit 31 cleared and the output id is h with bit 31 set, so
\* that they agree on the low 31 bits and differ; with an explicit id both
\* are that id.
C7_FunctionIds ==
    Loaded =>
        IF DeclaredFunction.serde.id = <<>>
        THEN /\ BLen(LoadedFunction.input_id) = ID_BITS
             /\ BLen(LoadedFunction.output_id) = ID_BITS
             /\ BTake(LoadedFunction.input_id, 1) = Run(0, 1)
             /\ BTake(LoadedFunction.output_id, 1) = Run(1, 1)
             /\ BDrop(LoadedFunction.input_id, 1)
                    = BDrop(DeclaredFunction.hash, 1)
             /\ BDrop(LoadedFunction.output_id, 1)
                    = BDrop(DeclaredFunction.hash, 1)
             /\ LoadedFunction.input_id # LoadedFunction.output_id
        ELSE /\ LoadedFunction.input_id = DeclaredFunction.serde.id[1]
             /\ LoadedFunction.output_id = DeclaredFunction.serde.id[1]

\* a schema without an explicit id was loaded whose digest word has bit 31
\* set
C7_Witness ==
    /\ Loaded
    /\ DeclaredFunction.serde.id = <<>>
    /\ BTake(DeclaredFunction.hash, 1) = Run(1, 1)
    /\ LoadedFunction.input_id # DeclaredFunction.hash

\* the least version of a type, as the table of the types gives it
MinVersion(t) ==
    CASE t.tag \in {"time", "expire", "pubkey"} -> ABI_VERSION_2_0
      [] t.tag \in {"string", "optional", "varint", "varuint"} ->
            ABI_VERSION_2_1
      [] t.tag = "ref" -> ABI_VERSION_2_4
      [] OTHER -> ABI_VERSION_1_0

RECURSIVE NeedsLater(_, _)
\* the type, or a type inside it, has a least version above v
NeedsLater(t, v) ==
    \/ VerLT(v, MinVersion(t))
    \/ IF t.tag = "tuple"
       THEN \E i \in 1..Len(t.sub) : NeedsLater(t.sub[i].kind, v)
       ELSE \E i \in 1..Len(t.sub) : NeedsLater(t.sub[i], v)

\* the types of all the parameters of the schema
SchemaTypes ==
    UNION {
      UNION {{schema.functions[i].serde.inputs[j].kind :
                j \in 1..Len(schema.functions[i].serde.inputs)} :
             i \in 1..Len(schema.functions)},
      UNION {{schema.functions[i].serde.outputs[j].kind :
                j \in 1..Len(schema.functions[i].serde.outputs)} :
             i \in 1..Len(schema.functions)},
      UNION {{schema.events[i].serde.inputs[j].kind :
                j \in 1..Len(schema.events[i].serde.inputs)} :
             i \in 1..Len(schema.events)},
      {schema.data[i].value.kind : i \in 1..Len(schema.data)},
      {schema.header[i].kind : i \in 1..Len(schema.header)},
      {schema.fields[i].kind : i \in 1..Len(schema.fields)}}

\* the schema breaks no rule of load other than the support of its types
WellFormed ==
    /\ schema.version # <<>>
    /\ schema.version[1] \in Versions
    /\ schema.version[1].major = 1 => schema.header = <<>>
    /\ VerLT(schema.version[1], ABI_VERSION_2_1) => schema.fields = <<>>

\* C9: load fails with NotSupported when a parameter of the schema, in any
\* of its lists and at any depth, has a type whose least version is above
\* the version of the schema.
C9_LoadRejects ==
    (/\ contract # None /\ contract.kind = "load"
     /\ WellFormed
     /\ \E t \in SchemaTypes : NeedsLater(t, schema.version[1]))
        => contract.res.err = "NotSupported"

\* C10: is_supported is true exactly when the version is at least the least
\* version of the type.
C10_SupportTable ==
    (support # None /\ support.kind = "is_supported")
        => support.res = VerGE(support.version, MinVersion(support.type))

\* the schema gives a version, as "version" or as the legacy "ABI version"
GivesVersion == schema.version # <<>> \/ schema.abi_version # <<>>

\* C11: load succeeds only for the versions 1.0, 2.0, 2.1, 2.2, 2.3 and 2.4,
\* and fails with InvalidVersion for every other version and for a schema
\* that gives none.
C11_LoadVersions ==
    (contract # None /\ contract.kind = "load")
        => /\ contract.res.err = ""
                => GivesVersion /\ SchemaVersion(schema) \in Versions
           /\ (~GivesVersion \/ SchemaVersion(schema) \notin Versions)
                => contract.res.err = "InvalidVersion"

====
